---- MODULE Spec2Model ----
(***************************************************************************)
(* The request-execution layer of the twitter-bot repository:              *)
(*   ProxyManager   (src/src/utils/proxy.ts)                               *)
(*   TwitterClient  (src/src/utils/httpClient.ts)                          *)
(* A makeRequest call is a process; its suspension points are the two      *)
(* network awaits (the ct0 derivation and the transport call).  Everything *)
(* the code does between two suspension points is one atomic step.         *)
(***************************************************************************)
EXTENDS Integers, Sequences, FiniteSets, TLC

(***************************************************************************)
(* Program constants.                                                      *)
(***************************************************************************)
\* maxFailures: constructor default (proxy.ts:34)
MaxFailures == 3
\* maxRetries: makeRequest default (httpClient.ts:159)
MaxRetries == 2
\* the platform's "automation blocked" code (httpClient.ts:321, 328)
BotCode == 226
\* the status under which isBotDetected reads the body (httpClient.ts:324)
ForbiddenStatus == 403
\* the platform's "duplicate content" code (httpClient.ts:345)
DuplicateCode == 187

(***************************************************************************)
(* Bounds of the model.                                                    *)
(***************************************************************************)
\* healthCheckInterval, in clock ticks (the code's default is 300 seconds)
HealthCheckInterval == 1
\* the clock stops advancing here
MaxTime == 1
\* the pool holds 0..MaxProxies proxies
MaxProxies == 2
\* identities (auth tokens) 1..MaxTokens
MaxTokens == 2
\* makeRequest calls that may be in progress at the same time
MaxRequests == 2
\* ProxyAgent objects created per proxy over a run
MaxGen == 2
\* entries of an error array in a response body
MaxErrors == 2
\* times a caller runs one envelope through the classifier
MaxClassify == 2
\* lines of a proxy file
MaxLines == 3
\* the resubmissions of a tweet that are told apart
MaxSubmissions == 3
\* lines of the token file and of the user file of a campaign, and the
\* mentions of a quote
MaxCampaignTokens == 2
MaxUsers == 4
MaxMentions == 3
\* lines of the token file that validateFromFile reads
MaxFileTokens == 3
\* the maxResults argument of a scrape method, and the users of one page
MaxResults == 4
MaxPage == 3

Tokens == 1..MaxTokens
ProxyIds == 1..MaxProxies
Slots == 1..MaxRequests
RotationModes == {"sticky", "round-robin", "random"}

RECURSIVE Gcd(_, _)
Gcd(a, b) == IF b = 0 THEN a ELSE Gcd(b, a % b)
RECURSIVE LcmUpTo(_)
LcmUpTo(n) == IF n <= 1 THEN 1 ELSE (LcmUpTo(n - 1) * n) \div Gcd(LcmUpTo(n - 1), n)
\* currentIndex is only ever read modulo the length of a list of 1..MaxProxies
\* proxies, so it is kept modulo the least common multiple of those lengths.
IndexModulus == LcmUpTo(MaxProxies)
\* Math.random() is a multiple of 1/RandomSteps in [0, 1): fine enough for
\* Math.floor(Math.random() * n) to reach every index of a list of n <= MaxProxies.
RandomSteps == LcmUpTo(MaxProxies)
Randoms == 0..(RandomSteps - 1)

(***************************************************************************)
(* Values.                                                                 *)
(***************************************************************************)
\* a ProxyAgent object: the proxy it was created for and its creation number
\* (two agents created for the same proxy are different objects)
NoAgent == [proxy |-> 0, gen |-> 0]
Agent(p, g) == [proxy |-> p, gen |-> g]
\* lastFailure undefined
NoTime == -1
\* no entry in the proxyHealth map
NoHealth == [exists |-> FALSE, gen |-> 0, failures |-> 0, lastFailure |-> NoTime, isHealthy |-> FALSE]
\* no entry in the tokenCache map
NoCache == [has |-> FALSE, ct0 |-> 0]

VARIABLES
    rotationMode,   \* ProxyManager.rotationMode
    proxies,        \* ProxyManager.proxies: the static pool, a sequence of proxy ids
    proxyHealth,    \* ProxyManager.proxyHealth: proxy -> health record
    proxyMap,       \* ProxyManager.proxyMap: token -> agent (sticky mode)
    currentIndex,   \* ProxyManager.currentIndex (modulo IndexModulus)
    now,            \* the clock read by new Date()
    tokenCache,     \* TwitterClient.tokenCache: token -> entry (its ct0; the agent and
                    \*   useProxy fields are written and never read: not modelled)
    req,            \* the makeRequest calls in progress, one per slot
    lastSels,       \* history: the getProxyForToken calls of the latest step
    lastPick,       \* history: the proxy the latest getProxyForToken call for the
                    \*   watched identity returned (0: none)
    orig,           \* history: the proxy first assigned to the watched identity
    origOK,         \* history: that proxy's record has stayed healthy since
    rrHist,         \* history: proxies returned by the latest consecutive
                    \*   getProxyForToken calls made with every proxy healthy
    envelope,       \* the response envelope handed to the classifier
    verdict,        \* the classifier's latest results
    proxyFile,      \* the proxy file that loadProxies reads
    loaded,         \* what the latest loadProxies call did
    act,            \* the TwitterActions call in progress
    camp,           \* the runCampaign call
    val,            \* the validateFromFile call and its latest validateToken call
    scr             \* the scrape call of TwitterScraper

\* the state of the client and of its proxy manager
clientVars == <<rotationMode, proxies, proxyHealth, proxyMap, currentIndex, now,
                tokenCache, req, lastSels, lastPick, orig, origOK, rrHist, envelope,
                verdict, proxyFile, loaded>>

\* the state of the callers of the client
appVars == <<act, camp, val, scr>>

vars == <<clientVars, appVars>>

(***************************************************************************)
(* ProxyManager (proxy.ts).  The operators work on a record                *)
(*   s = [health, map, idx]                                                *)
(* holding proxyHealth, proxyMap and currentIndex, and return the record   *)
(* as the method leaves it together with the method's result.              *)
(***************************************************************************)
PMState == [health |-> proxyHealth, map |-> proxyMap, idx |-> currentIndex]

InPool(p) == \E i \in 1..Len(proxies) : proxies[i] = p

\* getHealthyProxies, lines 110-116: the record is still in its cooldown period
InCooldown(rec, t) ==
    rec.lastFailure # NoTime /\ (t - rec.lastFailure) < HealthCheckInterval

\* getHealthyProxies, lines 109-120, on one record: an unhealthy record whose
\* cooldown has passed is reset in place
PromoteRecord(rec, t) ==
    IF rec.exists /\ ~rec.isHealthy /\ ~InCooldown(rec, t)
    THEN [rec EXCEPT !.isHealthy = TRUE, !.failures = 0]
    ELSE rec

\* proxyHealth as getHealthyProxies leaves it (it visits every proxy of the pool)
PromoteExpired(h, t) ==
    [p \in DOMAIN h |-> IF InPool(p) THEN PromoteRecord(h[p], t) ELSE h[p]]

\* a filter callback that knows no cooldown: it keeps every proxy
KeepsEveryProxy(rec, t) == TRUE

\* the value of the filter callback of getHealthyProxies, lines 104-122
KeepsProxy(rec, t) ==
    IF ~rec.exists THEN TRUE
    ELSE IF ~rec.isHealthy /\ InCooldown(rec, t) THEN FALSE
    ELSE PromoteRecord(rec, t).isHealthy

\* getHealthyProxies: the list it returns
getHealthyProxies(h, t) ==
    SelectSeq(proxies, LAMBDA p : KeepsProxy(h[p], t))

\* the agent stored in a health record
AgentOf(h, p) == IF h[p].exists THEN Agent(p, h[p].gen) ELSE NoAgent

\* a getOrCreateAgent without the agent cache of lines 133-136: every call
\* creates an agent and replaces the record
AlwaysCreateAgent(h, p) ==
    [health |-> [h EXCEPT ![p] = [exists |-> TRUE, gen |-> h[p].gen + 1,
                                  failures |-> 0, lastFailure |-> NoTime,
                                  isHealthy |-> TRUE]],
     agent |-> Agent(p, h[p].gen + 1)]

\* getOrCreateAgent: [health, agent]
getOrCreateAgent(h, p) ==
    IF h[p].exists /\ h[p].isHealthy
    THEN [health |-> h, agent |-> AgentOf(h, p)]
    ELSE [health |-> [h EXCEPT ![p] = [exists |-> TRUE, gen |-> h[p].gen + 1,
                                       failures |-> 0, lastFailure |-> NoTime,
                                       isHealthy |-> TRUE]],
          agent |-> Agent(p, h[p].gen + 1)]

\* a markProxyFailed that marks the proxy unhealthy at its first failure
markProxyFailedAtOnce(h, p, t) ==
    IF p \in DOMAIN h /\ h[p].exists
    THEN [h EXCEPT ![p] = [@ EXCEPT !.failures = @ + 1,
                                    !.lastFailure = t,
                                    !.isHealthy = FALSE]]
    ELSE h

\* markProxyFailed
markProxyFailed(h, p, t) ==
    IF p \in DOMAIN h /\ h[p].exists
    THEN [h EXCEPT ![p] = [@ EXCEPT !.failures = @ + 1,
                                    !.lastFailure = t,
                                    !.isHealthy = IF h[p].failures + 1 >= MaxFailures
                                                  THEN FALSE ELSE @]]
    ELSE h

\* a markProxySuccess that resets the count and leaves the healthy flag
markProxySuccessKeepsFlag(h, p) ==
    IF p \in DOMAIN h /\ h[p].exists
    THEN [h EXCEPT ![p] = [@ EXCEPT !.failures = 0]]
    ELSE h

\* a markProxySuccess that counts the response as one more failure
markProxySuccessAsFailure(h, p) ==
    IF p \in DOMAIN h /\ h[p].exists
    THEN [h EXCEPT ![p] = [@ EXCEPT !.failures = @ + 1]]
    ELSE h

\* markProxySuccess
markProxySuccess(h, p) ==
    IF p \in DOMAIN h /\ h[p].exists
    THEN [h EXCEPT ![p] = [@ EXCEPT !.failures = 0, !.isHealthy = TRUE]]
    ELSE h

\* getProxyUrlForAgent: the proxy whose record holds this agent, 0 for null
getProxyUrlForAgent(h, a) ==
    IF \E p \in DOMAIN h : h[p].exists /\ AgentOf(h, p) = a
    THEN CHOOSE p \in DOMAIN h : h[p].exists /\ AgentOf(h, p) = a
    ELSE 0

\* Math.floor(Math.random() * n) for the random draw rnd
RandomIndex(rnd, n) == (rnd * n) \div RandomSteps

\* selectProxyFromList, case 'sticky', lines 209-219: the proxy of the list whose
\* record holds the token's cached agent (0: none, fall through)
StickyMatch(s, list, token) ==
    IF s.map[token] # NoAgent
       /\ \E i \in 1..Len(list) : AgentOf(s.health, list[i]) = s.map[token]
    THEN list[CHOOSE i \in 1..Len(list) :
                  /\ AgentOf(s.health, list[i]) = s.map[token]
                  /\ \A j \in 1..(i - 1) : AgentOf(s.health, list[j]) # s.map[token]]
    ELSE 0

\* a round-robin pick without the currentIndex++ of line 223
RoundRobinStuck(s, list) ==
    [proxy |-> list[(s.idx % Len(list)) + 1], idx |-> s.idx]

\* selectProxyFromList, case 'round-robin', lines 222-224: [proxy, idx]
RoundRobinPick(s, list) ==
    [proxy |-> list[(s.idx % Len(list)) + 1], idx |-> (s.idx + 1) % IndexModulus]

\* selectProxyFromList: [proxy, idx]; proxy 0 for null
selectProxyFromList(s, list, token, rnd) ==
    IF Len(list) = 0 THEN [proxy |-> 0, idx |-> s.idx]
    ELSE CASE rotationMode = "sticky" ->
                 IF StickyMatch(s, list, token) # 0
                 THEN [proxy |-> StickyMatch(s, list, token), idx |-> s.idx]
                 ELSE RoundRobinPick(s, list)
           [] rotationMode = "round-robin" -> RoundRobinPick(s, list)
           [] rotationMode = "random" ->
                 [proxy |-> list[RandomIndex(rnd, Len(list)) + 1], idx |-> s.idx]
           [] OTHER -> [proxy |-> list[1], idx |-> s.idx]

\* a selectProxy without the fallback to the whole pool of lines 186-192
selectProxyNoFallback(s, token, t, rnd) ==
    LET healthy == getHealthyProxies(s.health, t)
        s1 == [s EXCEPT !.health = PromoteExpired(s.health, t)]
        pick == selectProxyFromList(s1, healthy, token, rnd)
    IN [health |-> s1.health, proxy |-> pick.proxy, idx |-> pick.idx]

\* selectProxy: [health, proxy, idx]
selectProxy(s, token, t, rnd) ==
    LET healthy == getHealthyProxies(s.health, t)
        s1 == [s EXCEPT !.health = PromoteExpired(s.health, t)]
        pick == IF Len(healthy) = 0
                THEN IF Len(proxies) = 0 THEN [proxy |-> 0, idx |-> s.idx]
                     ELSE selectProxyFromList(s1, proxies, token, rnd)
                ELSE selectProxyFromList(s1, healthy, token, rnd)
    IN [health |-> s1.health, proxy |-> pick.proxy, idx |-> pick.idx]

\* getProxyForToken, lines 239-252: the sticky cache answers the call
StickyCacheHit(s, token) ==
    /\ rotationMode = "sticky"
    /\ s.map[token] # NoAgent
    /\ getProxyUrlForAgent(s.health, s.map[token]) # 0
    /\ s.health[getProxyUrlForAgent(s.health, s.map[token])].isHealthy

\* a getProxyForToken that records its pick as the assignment of every identity
getProxyForTokenShared(s, token, t, rnd) ==
    IF StickyCacheHit(s, token) THEN [s |-> s, agent |-> s.map[token]]
    ELSE IF Len(proxies) = 0 THEN [s |-> s, agent |-> NoAgent]
    ELSE LET sel == selectProxy(s, token, t, rnd)
             got == getOrCreateAgent(sel.health, sel.proxy)
         IN IF sel.proxy = 0
            THEN [s |-> [s EXCEPT !.health = sel.health, !.idx = sel.idx], agent |-> NoAgent]
            ELSE [s |-> [health |-> got.health,
                         map |-> IF rotationMode = "sticky"
                                 THEN [u \in DOMAIN s.map |-> got.agent]
                                 ELSE s.map,
                         idx |-> sel.idx],
                  agent |-> got.agent]

\* a getProxyForToken that records the first assignment of an identity only
getProxyForTokenFirstOnly(s, token, t, rnd) ==
    IF StickyCacheHit(s, token) THEN [s |-> s, agent |-> s.map[token]]
    ELSE IF Len(proxies) = 0 THEN [s |-> s, agent |-> NoAgent]
    ELSE LET sel == selectProxy(s, token, t, rnd)
             got == getOrCreateAgent(sel.health, sel.proxy)
         IN IF sel.proxy = 0
            THEN [s |-> [s EXCEPT !.health = sel.health, !.idx = sel.idx], agent |-> NoAgent]
            ELSE [s |-> [health |-> got.health,
                         map |-> IF rotationMode = "sticky" /\ s.map[token] = NoAgent
                                 THEN [s.map EXCEPT ![token] = got.agent]
                                 ELSE s.map,
                         idx |-> sel.idx],
                  agent |-> got.agent]

\* getProxyForToken: [s, agent]
getProxyForToken(s, token, t, rnd) ==
    IF StickyCacheHit(s, token) THEN [s |-> s, agent |-> s.map[token]]
    ELSE IF Len(proxies) = 0 THEN [s |-> s, agent |-> NoAgent]
    ELSE LET sel == selectProxy(s, token, t, rnd)
             got == getOrCreateAgent(sel.health, sel.proxy)
         IN IF sel.proxy = 0
            THEN [s |-> [s EXCEPT !.health = sel.health, !.idx = sel.idx], agent |-> NoAgent]
            ELSE [s |-> [health |-> got.health,
                         map |-> IF rotationMode = "sticky"
                                 THEN [s.map EXCEPT ![token] = got.agent]
                                 ELSE s.map,
                         idx |-> sel.idx],
                  agent |-> got.agent]

\* getAgent
getAgent(s, token, t, rnd) == getProxyForToken(s, token, t, rnd)

\* getRandomAgent: [s, agent]
getRandomAgent(s, t, rnd) ==
    LET healthy == getHealthyProxies(s.health, t)
        h1 == PromoteExpired(s.health, t)
    IN IF Len(healthy) = 0
       THEN IF Len(proxies) = 0
            THEN [s |-> [s EXCEPT !.health = h1], agent |-> NoAgent]
            ELSE LET got == getOrCreateAgent(h1, proxies[RandomIndex(rnd, Len(proxies)) + 1])
                 IN [s |-> [s EXCEPT !.health = got.health], agent |-> got.agent]
       ELSE LET got == getOrCreateAgent(h1, healthy[RandomIndex(rnd, Len(healthy)) + 1])
            IN [s |-> [s EXCEPT !.health = got.health], agent |-> got.agent]

(***************************************************************************)
(* ProxyManager.loadProxies (proxy.ts, lines 47-86).  A string is the       *)
(* sequence of its pieces; the separator ":" and the blank " " are pieces   *)
(* of their own.  A value that may be undefined is a record                 *)
(*   [defined, str].                                                        *)
(***************************************************************************)
Undefined == [defined |-> FALSE, str |-> <<>>]
Defined(str) == [defined |-> TRUE, str |-> str]

\* the lines a proxy file is made of
SampleLines ==
    { <<"user", ":", "pass", ":", "realhost", ".test", ":", "8080">>,
      <<" ", "user", ":", "pass", ":", "other", ".test", ":", "9090", " ">>,
      <<"user", ":", "pass", ":", "example", ".com", ":", "8080">>,
      <<"user", ":", "pass", ":", "my", "example", ".org", ":", "8080">>,
      <<"user", ":", "pass", ":", "localhost", ":", "8080">>,
      <<"user", ":", "pass", ":", "127.0.0.1", ":", "8080">>,
      <<"user", ":", "pass", ":", ":", "8080">>,
      <<"user", ":", "pass", ":", "realhost", ".test", ":">>,
      <<"user", ":", "pass", ":", "realhost", ".test">>,
      <<"user", ":", "pass">>,
      <<"garbage">>,
      <<" ">>,
      <<>> }

\* a file that cannot be read
NoFile == [readable |-> FALSE, lines |-> <<>>]
\* the files: content.split('\n') of a readable file has at most MaxLines lines
ProxyFiles ==
    {NoFile} \cup
    {[readable |-> TRUE, lines |-> l] :
        l \in UNION {[1..n -> SampleLines] : n \in 0..MaxLines}}

\* no loadProxies call was made yet; failed: the call rejected
NotLoaded == [done |-> FALSE, proxies |-> <<>>, failed |-> FALSE]

\* String.prototype.trim
RECURSIVE TrimStart(_)
TrimStart(line) ==
    IF line # <<>> /\ Head(line) = " " THEN TrimStart(Tail(line)) ELSE line
RECURSIVE TrimEnd(_)
TrimEnd(line) ==
    IF line # <<>> /\ line[Len(line)] = " "
    THEN TrimEnd(SubSeq(line, 1, Len(line) - 1))
    ELSE line
Trim(line) == TrimEnd(TrimStart(line))

\* line.split(':'): the fields of the line
RECURSIVE Split(_)
Split(line) ==
    IF \E i \in 1..Len(line) : line[i] = ":"
    THEN LET i == CHOOSE k \in 1..Len(line) :
                      line[k] = ":" /\ \A j \in 1..(k - 1) : line[j] # ":"
         IN <<SubSeq(line, 1, i - 1)>> \o Split(SubSeq(line, i + 1, Len(line)))
    ELSE <<line>>

\* an element of a destructured array: undefined past its end
ElementAt(fields, i) == IF i <= Len(fields) THEN Defined(fields[i]) ELSE Undefined

\* the map callback of lines 55-58: const [user, pass, host, port] = line.split(':')
ParseLine(line) ==
    [user |-> ElementAt(Split(line), 1), pass |-> ElementAt(Split(line), 2),
     host |-> ElementAt(Split(line), 3), port |-> ElementAt(Split(line), 4)]

\* lines 52-58: the trimmed, non-empty lines, parsed
NonEmptyLine(line) == Len(line) > 0
AllProxies(lines) ==
    LET kept == SelectSeq([i \in 1..Len(lines) |-> Trim(lines[i])], NonEmptyLine)
    IN [i \in 1..Len(kept) |-> ParseLine(kept[i])]

\* String.prototype.includes
IncludesStr(str, sub) ==
    \E i \in 0..(Len(str) - Len(sub)) : SubSeq(str, i + 1, i + Len(sub)) = sub

\* The filter callback of lines 61-73: "keep", "drop", or "throw" for the
\* TypeError of proxy.host.includes when proxy.host is undefined; the tests
\* are made in the order of the || chain.
FilterProxy(proxy) ==
    IF ~proxy.host.defined THEN "throw"
    ELSE IF \/ IncludesStr(proxy.host.str, <<"example", ".com">>)
            \/ IncludesStr(proxy.host.str, <<"example">>)
            \/ proxy.host.str = <<"localhost">>
            \/ proxy.host.str = <<"127.0.0.1">>
            \/ proxy.host.str = <<>>
            \/ ~proxy.port.defined
            \/ proxy.port.str = <<>>
         THEN "drop"
         ELSE "keep"
KeptByFilter(proxy) == FilterProxy(proxy) = "keep"

\* loadProxies: this.proxies as the call leaves it.  readFile rejecting and
\* the filter callback throwing both end in the catch block of lines 82-85,
\* which empties the pool; the call itself never rejects.
loadProxies(file) ==
    IF ~file.readable
    THEN [done |-> TRUE, proxies |-> <<>>, failed |-> FALSE]
    ELSE IF \E i \in 1..Len(AllProxies(file.lines)) :
                FilterProxy(AllProxies(file.lines)[i]) = "throw"
    THEN [done |-> TRUE, proxies |-> <<>>, failed |-> FALSE]
    ELSE [done |-> TRUE, proxies |-> SelectSeq(AllProxies(file.lines), KeptByFilter),
          failed |-> FALSE]

(***************************************************************************)
(* Transport failures.  An error is what the code reads of it: the         *)
(* fragments of its message (message.includes(x) is "x is a fragment"),    *)
(* its code and the message of its cause; kind is what really went wrong.  *)
(* The direct transport rejects with the socket's error; undici's fetch    *)
(* rejects with 'fetch failed' and the socket's error as the cause.        *)
(***************************************************************************)
NoErr == [name |-> "none", kind |-> "none", message |-> <<>>, code |-> "", cause |-> <<>>]
ErrRefused == [name |-> "refused", kind |-> "connection-refused",
               message |-> <<"connect", "ECONNREFUSED">>, code |-> "ECONNREFUSED", cause |-> <<>>]
ErrDns == [name |-> "dns", kind |-> "dns",
           message |-> <<"getaddrinfo", "ENOTFOUND">>, code |-> "ENOTFOUND", cause |-> <<>>]
ErrTimeout == [name |-> "timeout", kind |-> "timeout",
               message |-> <<"timeout">>, code |-> "ETIMEDOUT", cause |-> <<>>]
ErrReset == [name |-> "reset", kind |-> "connection-reset",
             message |-> <<"read", "ECONNRESET">>, code |-> "ECONNRESET", cause |-> <<>>]
ErrTls == [name |-> "tls", kind |-> "tls",
           message |-> <<"certificate", "has", "expired">>, code |-> "CERT_HAS_EXPIRED", cause |-> <<>>]
ErrTlsWrapped == [name |-> "tls-wrapped", kind |-> "tls",
                  message |-> <<"fetch failed">>, code |-> "",
                  cause |-> <<"certificate", "has", "expired">>]
ErrFetchFailed == [name |-> "fetch-failed", kind |-> "generic",
                   message |-> <<"fetch failed">>, code |-> "", cause |-> <<>>]
ErrOther == [name |-> "other", kind |-> "generic",
             message |-> <<"socket", "hang", "up">>, code |-> "", cause |-> <<>>]
Errors == {ErrRefused, ErrDns, ErrTimeout, ErrReset, ErrTls, ErrTlsWrapped,
           ErrFetchFailed, ErrOther}

\* String.prototype.includes on a message
Includes(message, x) == \E i \in 1..Len(message) : message[i] = x

\* a classification under which every error is retryable
EveryErrorRetryable(error) == TRUE

\* isRetryableError
isRetryableError(error) ==
    \/ Includes(error.message, "ECONNREFUSED")
    \/ Includes(error.message, "ENOTFOUND")
    \/ Includes(error.message, "timeout")
    \/ Includes(error.message, "ETIMEDOUT")
    \/ Includes(error.message, "fetch failed")
    \/ error.code = "ENOTFOUND"
    \/ error.code = "ECONNREFUSED"
    \/ error.code = "ETIMEDOUT"
    \/ error.code = "ECONNRESET"

\* makeRequest, lines 278-295: the tag of the failure raised for an error
FailureTag(err) ==
    IF \/ Includes(err.message, "ECONNREFUSED") \/ Includes(err.message, "ENOTFOUND")
       \/ err.code = "ENOTFOUND" \/ err.code = "ECONNREFUSED"
    THEN "Network error"
    ELSE IF Includes(err.message, "timeout") \/ err.code = "ETIMEDOUT"
    THEN "Request timeout"
    ELSE IF \/ Includes(err.message, "certificate") \/ Includes(err.message, "SSL")
            \/ err.code = "CERT_HAS_EXPIRED"
    THEN "SSL/TLS error"
    ELSE IF Includes(err.message, "fetch failed")
    THEN "Connection failed"
    ELSE "Request failed"

\* the condition of line 251 without its bound on retryCount
AsksRetryUnbounded(err, retryCount, useProxy) ==
    isRetryableError(err) /\ useProxy

\* makeRequest, line 251: a retry is considered and getRandomAgent is called
AsksRetry(err, retryCount, useProxy) ==
    isRetryableError(err) /\ retryCount < MaxRetries /\ useProxy

\* a retry decision that looks neither at useProxy nor at the new agent
ShouldRetryDirect(err, retryCount, useProxy, agent, newAgent) ==
    isRetryableError(err) /\ retryCount < MaxRetries

\* makeRequest, lines 251-262: the call is made again (newAgent is what
\* getRandomAgent returned, NoAgent when it was not called)
ShouldRetry(err, retryCount, useProxy, agent, newAgent) ==
    /\ AsksRetry(err, retryCount, useProxy)
    /\ newAgent # NoAgent
    /\ newAgent # agent

(***************************************************************************)
(* TwitterClient.makeRequest (httpClient.ts) as a process.                 *)
(***************************************************************************)
\* ct0 values: what the derivation found, generateFallbackCT0's random token,
\* and the values a response may refresh it to
DerivedCt0 == 1
FallbackCt0 == 2
RefreshedCt0 == {3, 4}
StatusCodes == {200, BotCode, 401, ForbiddenStatus, 429, 500}

\* What a derivation meets: a hard-coded override for the identity, and what
\* the credentials endpoint and then the home page answer: "error" (the request
\* fails), "no-cookie" (no set-cookie header), "empty-ct0" (a cookie ct0= with
\* an empty value, which ct0=([^;]+) does not match) or "ct0" (a ct0 cookie).
Answers == {"error", "no-cookie", "empty-ct0", "ct0"}
DerivationOutcomes == [override : BOOLEAN, first : Answers, second : Answers]

\* a derivation that returns the empty token when it finds none
fetchCSRFTokenNoFallback(o) ==
    IF o.override \/ o.first = "ct0" THEN DerivedCt0
    ELSE IF o.first # "error" /\ o.second = "ct0" THEN DerivedCt0
    ELSE 0

\* fetchCSRFToken: the token it returns (0 would be the empty string)
fetchCSRFToken(o) ==
    IF o.override THEN DerivedCt0
    ELSE IF o.first = "error" THEN FallbackCt0
    ELSE IF o.first = "ct0" THEN DerivedCt0
    ELSE IF o.second = "error" THEN FallbackCt0
    ELSE IF o.second = "ct0" THEN DerivedCt0
    ELSE FallbackCt0

\* the tokens a derivation can return
DerivedTokens == {fetchCSRFToken(o) : o \in DerivationOutcomes}

\* The headers of a request that matter here: the cookie header (the identity
\* and a ct0), the x-csrf-token header, and a 'Cookie' header, which is a key
\* of its own in the headers object.
NoCookie == [auth_token |-> 0, ct0 |-> 0]
CookiePair(authToken, ct0) == [auth_token |-> authToken, ct0 |-> ct0]
NoHeaders == [cookie |-> NoCookie, csrf |-> 0, Cookie |-> NoCookie]

\* getBaseHeaders: the cookie and the x-csrf-token it builds from ct0
getBaseHeaders(authToken, ct0) ==
    [cookie |-> CookiePair(authToken, ct0), csrf |-> ct0, Cookie |-> NoCookie]

\* The callers of makeRequest: "plain" passes no headers; "headers" is
\* TokenValidator.getUsernameFromToken, which takes the ct0 from getCSRFToken
\* and passes it in options.headers as 'x-csrf-token' and in a 'Cookie'.
Callers == {"plain", "headers"}
Captured(caller, ct0) == IF caller = "headers" THEN ct0 ELSE 0

\* makeRequest, lines 178-181: Object.assign(headers, options.headers), where
\* options.headers holds the ct0 the caller captured (0: no options.headers)
AssignHeaders(headers, authToken, captured) ==
    IF captured = 0 THEN headers
    ELSE [headers EXCEPT !.csrf = captured,
                         !.Cookie = CookiePair(authToken, captured)]

\* fetchCSRFToken, lines 392-404 and 435: the agent of the connection its
\* requests go out over: requestOptions holds the host, the port, the path, the
\* method, the headers and the protocol, and no agent; fetchCSRFToken is given
\* the identity only, not the proxy pool (NoAgent: a direct connection)
DerivationAgent(s, token) == NoAgent

IdleReq == [pc |-> "idle", token |-> 0, retryCount |-> 0, agent |-> NoAgent,
            useProxy |-> FALSE, ct0 |-> 0, attempts |-> 0,
            result |-> "none", status |-> 0, raisedTag |-> "none",
            raisedErr |-> NoErr, lastErr |-> NoErr,
            failReports |-> 0, succReports |-> 0,
            prevProxy |-> 0, healthKept |-> TRUE,
            derivations |-> 0, refreshed |-> 0, responses |-> 0,
            caller |-> "plain", captured |-> 0, headers |-> NoHeaders,
            csrfCall |-> FALSE, csrfAgent |-> NoAgent]

\* what a getProxyForToken call did, for the history: the proxy it returned,
\* whether that proxy's record was unhealthy and in cooldown when the call was
\* made, and whether a proxy was eligible then
SelInfo(s, token, t, got) ==
    [token |-> token,
     proxy |-> got.agent.proxy,
     cooling |-> /\ got.agent # NoAgent
                 /\ s.health[got.agent.proxy].exists
                 /\ ~s.health[got.agent.proxy].isHealthy
                 /\ InCooldown(s.health[got.agent.proxy], t),
     eligible |-> Len(getHealthyProxies(s.health, t)) > 0]

\* every agent created is within the bound on agents
GenOK(h) == \A p \in ProxyIds : h[p].gen <= MaxGen

Healthy(h, p) == h[p].exists /\ h[p].isHealthy

\* the first and the last call of sels made for token t that returned a proxy
FirstFor(sels, t) ==
    CHOOSE i \in 1..Len(sels) :
        /\ sels[i].token = t /\ sels[i].proxy # 0
        /\ \A j \in 1..(i - 1) : ~(sels[j].token = t /\ sels[j].proxy # 0)
LastFor(sels, t) ==
    CHOOSE i \in 1..Len(sels) :
        /\ sels[i].token = t /\ sels[i].proxy # 0
        /\ \A j \in (i + 1)..Len(sels) : ~(sels[j].token = t /\ sels[j].proxy # 0)
SelectedFor(sels, t) == \E i \in 1..Len(sels) : sels[i].token = t /\ sels[i].proxy # 0

\* the fixed identity whose assignments the history follows
Watched == CHOOSE t \in Tokens : \A u \in Tokens : t <= u

\* The history after a step that made the getProxyForToken calls sels and took
\* proxyHealth through the maps hs.  The assignment history is kept in sticky
\* mode only.
History(sels, hs) ==
    /\ lastSels' = {[cooling |-> sels[i].cooling, eligible |-> sels[i].eligible] :
                        i \in 1..Len(sels)}
    /\ IF rotationMode = "sticky"
       THEN LET first == IF orig # 0 \/ ~SelectedFor(sels, Watched) THEN orig
                         ELSE sels[FirstFor(sels, Watched)].proxy
            IN /\ lastPick' = IF SelectedFor(sels, Watched)
                              THEN sels[LastFor(sels, Watched)].proxy
                              ELSE lastPick
               /\ orig' = first
               /\ origOK' = IF orig # 0
                            THEN origOK /\ \A i \in 1..Len(hs) : Healthy(hs[i], orig)
                            ELSE first # 0 /\ Healthy(hs[Len(hs)], first)
       ELSE UNCHANGED <<lastPick, orig, origOK>>

\* the round-robin window after a getProxyForToken call made in state s
RRAfter(hist, s, t, got) ==
    IF rotationMode # "round-robin" \/ got.agent = NoAgent THEN hist
    ELSE IF getHealthyProxies(s.health, t) # proxies THEN <<>>
    ELSE IF Len(hist) < Len(proxies) THEN Append(hist, got.agent.proxy)
    ELSE Append(Tail(hist), got.agent.proxy)

DrawsFor(mode) == IF mode = "random" THEN Randoms ELSE {0}

\* a call takes the lowest free slot
FreeSlot(r) == req[r].pc = "idle" /\ \A q \in 1..(r - 1) : req[q].pc # "idle"

\* an entry of makeRequest that takes the proxied path whatever getAgent returned
IssuedProxied(token, ct0, retryCount, got, base) ==
    [base EXCEPT !.pc = "fetch", !.token = token, !.ct0 = ct0,
                 !.retryCount = retryCount, !.agent = got.agent,
                 !.useProxy = TRUE,
                 !.headers = AssignHeaders(getBaseHeaders(token, ct0), token,
                                           base.captured),
                 !.attempts = base.attempts + 1]

\* The entry of makeRequest up to the transport call, lines 166-201, once
\* getCSRFToken has returned ct0: the slot as it waits for the transport.
Issued(token, ct0, retryCount, got, base) ==
    [base EXCEPT !.pc = "fetch", !.token = token, !.ct0 = ct0,
                 !.retryCount = retryCount, !.agent = got.agent,
                 !.useProxy = (got.agent # NoAgent),
                 !.headers = AssignHeaders(getBaseHeaders(token, ct0), token,
                                           base.captured),
                 !.attempts = base.attempts + 1]

\* makeRequest is called for an identity whose ct0 is cached: getCSRFToken
\* returns it (to the caller first, when the caller passes it in its headers),
\* getAgent resolves the proxy and the transport call is issued.
BeginCached(r, token, caller, rnd) ==
    /\ FreeSlot(r)
    /\ tokenCache[token].has
    /\ \E got \in {getAgent(PMState, token, now, rnd)} :
          /\ GenOK(got.s.health)
          /\ req' = [req EXCEPT ![r] =
                        Issued(token, tokenCache[token].ct0, 0, got,
                               [IdleReq EXCEPT !.caller = caller,
                                               !.captured = Captured(caller,
                                                   tokenCache[token].ct0)])]
          /\ proxyHealth' = got.s.health
          /\ proxyMap' = got.s.map
          /\ currentIndex' = got.s.idx
          /\ History(<<SelInfo(PMState, token, now, got)>>, <<got.s.health>>)
          /\ rrHist' = RRAfter(rrHist, PMState, now, got)
    /\ UNCHANGED <<appVars, rotationMode, proxies, now, tokenCache, envelope, verdict, proxyFile, loaded>>

\* a getCSRFToken that derives the token whether or not an entry exists
BeginDerivationAlways(r, token, caller, override) ==
    /\ FreeSlot(r)
    /\ req' = [req EXCEPT ![r] = [IdleReq EXCEPT !.pc = "csrf", !.token = token,
                                                 !.caller = caller,
                                                 !.derivations = 1,
                                                 !.csrfCall = ~override,
                                                 !.csrfAgent =
                                                     IF override THEN NoAgent
                                                     ELSE DerivationAgent(PMState, token)]]
    /\ History(<<>>, <<proxyHealth>>)
    /\ UNCHANGED <<appVars, rotationMode, proxies, proxyHealth, proxyMap, currentIndex, now,
                   tokenCache, rrHist, envelope, verdict, proxyFile, loaded>>

\* makeRequest is called for an identity with no session entry: getCSRFToken
\* (called by the caller first, when the caller passes the ct0 in its headers)
\* awaits fetchCSRFToken, which, unless CT0_OVERRIDES holds a ct0 for the
\* identity (override), sends its request to the credentials endpoint.
BeginDerivation(r, token, caller, override) ==
    /\ FreeSlot(r)
    /\ ~tokenCache[token].has
    /\ req' = [req EXCEPT ![r] = [IdleReq EXCEPT !.pc = "csrf", !.token = token,
                                                 !.caller = caller,
                                                 !.derivations = 1,
                                                 !.csrfCall = ~override,
                                                 !.csrfAgent =
                                                     IF override THEN NoAgent
                                                     ELSE DerivationAgent(PMState, token)]]
    /\ History(<<>>, <<proxyHealth>>)
    /\ UNCHANGED <<appVars, rotationMode, proxies, proxyHealth, proxyMap, currentIndex, now,
                   tokenCache, rrHist, envelope, verdict, proxyFile, loaded>>

\* fetchCSRFToken returns ct0 (a derived token or the fallback token):
\* getCSRFToken, lines 143-151, stores the entry, then makeRequest goes on to
\* the transport call.
DerivationDone(r, ct0, rnd1, rnd2) ==
    /\ req[r].pc = "csrf"
    /\ ~req[r].csrfCall => ct0 = DerivedCt0
    /\ \E token \in {req[r].token} :
       \E got1 \in {getAgent(PMState, token, now, rnd1)} :
       \E got2 \in {getAgent(got1.s, token, now, rnd2)} :
       \E sel1 \in {SelInfo(PMState, token, now, got1)} :
       \E sel2 \in {SelInfo(got1.s, token, now, got2)} :
          /\ GenOK(got2.s.health)
          /\ tokenCache' = [tokenCache EXCEPT ![token] =
                                [has |-> TRUE, ct0 |-> ct0]]
          /\ req' = [req EXCEPT ![r] =
                        Issued(token, ct0, 0, got2,
                               [req[r] EXCEPT !.captured = Captured(req[r].caller, ct0)])]
          /\ proxyHealth' = got2.s.health
          /\ proxyMap' = got2.s.map
          /\ currentIndex' = got2.s.idx
          /\ History(<<sel1, sel2>>, <<got1.s.health, got2.s.health>>)
          /\ rrHist' = RRAfter(RRAfter(rrHist, PMState, now, got1), got1.s, now, got2)
    /\ UNCHANGED <<appVars, rotationMode, proxies, now, envelope, verdict, proxyFile, loaded>>

\* a ct0 update that drops the session entry when the response carries no ct0
DropCt0(cache, token, refresh) ==
    IF refresh # 0 /\ cache[token].has
    THEN [cache EXCEPT ![token].ct0 = refresh]
    ELSE [cache EXCEPT ![token] = NoCache]

\* a ct0 update that loses the refreshed value
KeepCt0(cache, token, refresh) == cache

\* a ct0 update that writes the refreshed value to every session entry
UpdateEveryCt0(cache, token, refresh) ==
    IF refresh # 0 /\ cache[token].has
    THEN [t \in DOMAIN cache |-> [cache[t] EXCEPT !.ct0 = refresh]]
    ELSE cache

\* makeRequest, lines 211-218: the session entry after a response whose
\* set-cookie header carries the ct0 refresh (0: it carries none)
UpdateCt0(cache, token, refresh) ==
    IF refresh # 0 /\ cache[token].has
    THEN [cache EXCEPT ![token].ct0 = refresh]
    ELSE cache

\* The transport call returns a response, lines 201-236.  refresh is the ct0 of
\* its set-cookie header, 0 when it carries none.
FetchResponse(r, status, refresh) ==
    /\ req[r].pc = "fetch"
    /\ LET token == req[r].token
           proxyUrl == IF req[r].useProxy /\ req[r].agent # NoAgent
                       THEN getProxyUrlForAgent(proxyHealth, req[r].agent) ELSE 0
           h1 == IF proxyUrl # 0 THEN markProxySuccess(proxyHealth, proxyUrl)
                 ELSE proxyHealth
       IN /\ proxyHealth' = h1
          /\ tokenCache' = UpdateCt0(tokenCache, token, refresh)
          /\ req' = [req EXCEPT ![r] =
                        [@ EXCEPT !.pc = "done", !.result = "envelope", !.status = status,
                                  !.refreshed = refresh,
                                  !.responses = @ + 1,
                                  !.succReports = @ + (IF proxyUrl # 0 THEN 1 ELSE 0)]]
          /\ History(<<>>, <<h1>>)
    /\ UNCHANGED <<appVars, rotationMode, proxies, proxyMap, currentIndex, now,
                   rrHist, envelope, verdict, proxyFile, loaded>>

\* what the transport gave before it failed: nothing, or (on the proxied path,
\* where the body is read after fetch has resolved) a response whose
\* set-cookie header carries the ct0 refresh
NoResponse == [got |-> FALSE, refresh |-> 0]
BodyLost(refresh) == [got |-> TRUE, refresh |-> refresh]

\* The try block throws err, lines 237-296: either the transport call itself
\* (resp = NoResponse), or response.text() after lines 203-218 have marked the
\* proxy successful and taken the ct0 of the response.  The proxy is marked
\* failed and the call is either made again (the recursive makeRequest up to
\* its transport call: the ct0 is cached by now) or a failure is raised.
FetchFail(r, err, resp, rnd1, rnd2) ==
    /\ req[r].pc = "fetch"
    /\ resp.got => req[r].useProxy
    /\ \E token \in {req[r].token}, agent \in {req[r].agent} :
       \E okUrl \in {IF resp.got /\ req[r].useProxy /\ agent # NoAgent
                     THEN getProxyUrlForAgent(proxyHealth, agent) ELSE 0} :
       \E h0 \in {IF okUrl # 0 THEN markProxySuccess(proxyHealth, okUrl)
                  ELSE proxyHealth} :
       \E cache \in {IF resp.got THEN UpdateCt0(tokenCache, token, resp.refresh)
                     ELSE tokenCache} :
       \E proxyUrl \in {IF req[r].useProxy /\ agent # NoAgent
                        THEN getProxyUrlForAgent(h0, agent) ELSE 0} :
       \E h1 \in {IF proxyUrl # 0 THEN markProxyFailed(h0, proxyUrl, now)
                  ELSE h0} :
       \E rand \in {IF AsksRetry(err, req[r].retryCount, req[r].useProxy)
                    THEN getRandomAgent([PMState EXCEPT !.health = h1], now, rnd1)
                    ELSE [s |-> [PMState EXCEPT !.health = h1], agent |-> NoAgent]} :
       \E got \in {getAgent(rand.s, token, now, rnd2)} :
       \E failed \in {[req[r] EXCEPT !.lastErr = err,
                                     !.failReports = @ + (IF proxyUrl # 0 THEN 1 ELSE 0),
                                     !.succReports = @ + (IF okUrl # 0 THEN 1 ELSE 0),
                                     !.responses = @ + (IF resp.got THEN 1 ELSE 0),
                                     !.refreshed = IF resp.got THEN resp.refresh ELSE @,
                                     !.prevProxy = agent.proxy,
                                     !.healthKept = (rand.s.health = proxyHealth)]} :
          IF ShouldRetry(err, req[r].retryCount, req[r].useProxy, agent, rand.agent)
          THEN /\ GenOK(got.s.health)
               /\ tokenCache' = cache
               /\ req' = [req EXCEPT ![r] =
                             Issued(token, cache[token].ct0, req[r].retryCount + 1,
                                    got, failed)]
               /\ proxyHealth' = got.s.health
               /\ proxyMap' = got.s.map
               /\ currentIndex' = got.s.idx
               /\ History(<<SelInfo(rand.s, token, now, got)>>,
                          <<h0, h1, rand.s.health, got.s.health>>)
               /\ rrHist' = RRAfter(rrHist, rand.s, now, got)
          ELSE /\ GenOK(rand.s.health)
               /\ tokenCache' = cache
               /\ req' = [req EXCEPT ![r] =
                             [failed EXCEPT !.pc = "done", !.result = "raised",
                                            !.raisedTag = FailureTag(err),
                                            !.raisedErr = err]]
               /\ proxyHealth' = rand.s.health
               /\ History(<<>>, <<h0, h1, rand.s.health>>)
               /\ UNCHANGED <<proxyMap, currentIndex, rrHist>>
    /\ UNCHANGED <<appVars, rotationMode, proxies, now, envelope, verdict, proxyFile, loaded>>

\* The caller has the outcome of makeRequest; the slot is free for the next call.
Return(r) ==
    /\ req[r].pc = "done"
    /\ req' = [req EXCEPT ![r] = IdleReq]
    /\ History(<<>>, <<proxyHealth>>)
    /\ UNCHANGED <<appVars, rotationMode, proxies, proxyHealth, proxyMap, currentIndex, now,
                   tokenCache, rrHist, envelope, verdict, proxyFile, loaded>>

\* Time passes.
Tick ==
    /\ now < MaxTime
    /\ now' = now + 1
    /\ History(<<>>, <<proxyHealth>>)
    /\ UNCHANGED <<appVars, rotationMode, proxies, proxyHealth, proxyMap, currentIndex,
                   tokenCache, req, rrHist, envelope, verdict, proxyFile, loaded>>

(***************************************************************************)
(* The response classifier (httpClient.ts, lines 320-352).  A response      *)
(* body is raw text, the JSON null or an object; the errors field of an     *)
(* object is absent, a single error object or an array of error objects.    *)
(* An error object has a code (0: none) and a message (its fragments).      *)
(***************************************************************************)
NoObj == [code |-> 0, message |-> <<>>]
ErrorCodes == {0, 34, DuplicateCode, BotCode}
ErrorMessages == {<<>>, <<"Status is a ", "duplicate">>, <<"Could not authenticate you">>}
ErrorObjects == [code : ErrorCodes, message : ErrorMessages]
ErrorArrays == UNION {[1..n -> ErrorObjects] : n \in 0..MaxErrors}
ErrorsFields ==
    {[form |-> "absent", obj |-> NoObj, items |-> <<>>]}
    \cup {[form |-> "single", obj |-> e, items |-> <<>>] : e \in ErrorObjects}
    \cup {[form |-> "array", obj |-> NoObj, items |-> a] : a \in ErrorArrays}
Bodies ==
    {[type |-> "text", errors |-> [form |-> "absent", obj |-> NoObj, items |-> <<>>]],
     [type |-> "null", errors |-> [form |-> "absent", obj |-> NoObj, items |-> <<>>]]}
    \cup {[type |-> "object", errors |-> f] : f \in ErrorsFields}
Envelopes == [status : StatusCodes, data : Bodies]

\* an error list that reads the array form only
ErrorListOfArray(field) == field.items

\* Array.isArray(data.errors) ? data.errors : [data.errors]
ErrorList(field) == IF field.form = "array" THEN field.items ELSE <<field.obj>>

\* response.data && typeof response.data === 'object' && data.errors
HasErrors(data) == data.type = "object" /\ data.errors.form # "absent"

\* isBotDetected: the detected field of its result
isBotDetected(response) ==
    IF response.status = BotCode THEN TRUE
    ELSE IF response.status = ForbiddenStatus /\ HasErrors(response.data)
    THEN \E i \in 1..Len(ErrorList(response.data.errors)) :
             ErrorList(response.data.errors)[i].code = BotCode
    ELSE FALSE

\* a duplicate check that reads the body under status 403 only
isDuplicateErrorOnForbidden(response) ==
    /\ response.status = ForbiddenStatus
    /\ HasErrors(response.data)
    /\ \E i \in 1..Len(ErrorList(response.data.errors)) :
           ErrorList(response.data.errors)[i].code = DuplicateCode

\* isDuplicateError: the duplicate field of its result
isDuplicateError(response) ==
    IF HasErrors(response.data)
    THEN \E i \in 1..Len(ErrorList(response.data.errors)) :
             \/ ErrorList(response.data.errors)[i].code = DuplicateCode
             \/ /\ ErrorList(response.data.errors)[i].message # <<>>
                /\ Includes(ErrorList(response.data.errors)[i].message, "duplicate")
    ELSE FALSE

NoEnvelope == [status |-> 0,
               data |-> [type |-> "text",
                         errors |-> [form |-> "absent", obj |-> NoObj, items |-> <<>>]]]
NoResult == [detected |-> FALSE, duplicate |-> FALSE]
NoVerdict == [done |-> FALSE, calls |-> 0, detected |-> FALSE, duplicate |-> FALSE,
              prev |-> NoResult]

\* a classifier that consumes the body it reads
ClassifyConsuming ==
    /\ verdict.calls < MaxClassify
    /\ verdict' = [done |-> TRUE, calls |-> verdict.calls + 1,
                   detected |-> isBotDetected(envelope),
                   duplicate |-> isDuplicateError(envelope),
                   prev |-> [detected |-> verdict.detected, duplicate |-> verdict.duplicate]]
    /\ envelope' = [envelope EXCEPT !.data = [type |-> "null",
                         errors |-> [form |-> "absent", obj |-> NoObj, items |-> <<>>]]]
    /\ UNCHANGED <<appVars, rotationMode, proxies, proxyHealth, proxyMap, currentIndex, now,
                   tokenCache, req, lastSels, lastPick, orig, origOK, rrHist,
                   proxyFile, loaded>>

\* A caller runs an envelope through the classifier: isBotDetected, then
\* isDuplicateError.  Neither writes anything; prev keeps the results of the
\* call before.
Classify ==
    /\ verdict.calls < MaxClassify
    /\ verdict' = [done |-> TRUE, calls |-> verdict.calls + 1,
                   detected |-> isBotDetected(envelope),
                   duplicate |-> isDuplicateError(envelope),
                   prev |-> [detected |-> verdict.detected, duplicate |-> verdict.duplicate]]
    /\ UNCHANGED <<appVars, rotationMode, proxies, proxyHealth, proxyMap, currentIndex, now,
                   tokenCache, req, lastSels, lastPick, orig, origOK, rrHist, envelope,
                   proxyFile, loaded>>

(***************************************************************************)
(* TwitterActions (unnamed/part_000, lines 85-374).  Each method awaits one  *)
(* makeRequest call, which gives a response envelope or throws, and turns   *)
(* what it gets into an ActionResult inside one try/catch.                  *)
(***************************************************************************)
Methods == {"postTweet", "quoteTweet", "reply", "likeTweet", "retweet", "follow", "sendDM"}

\* data?.data?.create_tweet?.tweet_results?.result?.rest_id of a body:
\* undefined, the empty string or an id
RestIds == {Undefined, Defined(<<>>), Defined(<<"1">>)}

\* The bodies of the responses given to the actions: those of the classifier
\* with at most one error object, and in an object body the rest_id.
ActionBodies == {b \in Bodies : Len(b.errors.items) <= 1}
ActionResponses ==
    {resp \in [status : StatusCodes, data : ActionBodies, rest_id : RestIds] :
        resp.data.type # "object" => resp.rest_id = Undefined}
NoActionResponse == [status |-> 0, data |-> NoEnvelope.data, rest_id |-> Undefined]

\* ok of an envelope: 200 <= status < 300 (httpClient.ts:58, 231)
Ok(response) == response.status >= 200 /\ response.status < 300

\* `${response.status}` of the statuses of the model
StatusText(status) ==
    CASE status = 200 -> "200" [] status = BotCode -> "226" [] status = 401 -> "401"
      [] status = ForbiddenStatus -> "403" [] status = 429 -> "429" [] OTHER -> "500"

\* ActionResult: success, error (Undefined: the field is absent) and the id
\* field of the method (tweetId, quoteId or replyId)
NoActionResult == [success |-> FALSE, error |-> Undefined, id |-> Undefined]
Succeeded(id) == [success |-> TRUE, error |-> Undefined, id |-> id]
SuccessIs(ok) == [success |-> ok, error |-> Undefined, id |-> Undefined]
\* the catch clause: { success: false, error: error.message }
Caught(message) == [success |-> FALSE, error |-> Defined(message), id |-> Undefined]

\* the error field of isBotDetected's result when detected
BotError == <<"Error ", "226", ": Bot detection triggered">>

\* !tweetId
Falsy(id) == ~id.defined \/ id.str = <<>>

\* data.errors && Array.isArray(data.errors) && data.errors.length > 0
\* (postTweet, lines 125-131)
HasErrorArray(data) ==
    data.type = "object" /\ data.errors.form = "array" /\ Len(data.errors.items) > 0

\* What a method does with the envelope of its request: "resubmit" (it calls
\* itself with addInvisibleChars(text)) or "return" with a result.
Resubmit == [do |-> "resubmit", result |-> NoActionResult]
Returns(result) == [do |-> "return", result |-> result]

\* a postTweet whose duplicate check comes before its bot-detection check
postTweetDuplicateFirst(response) ==
    IF isDuplicateError(response) THEN Resubmit
    ELSE IF isBotDetected(response) THEN Returns(Caught(BotError))
    ELSE IF HasErrorArray(response.data) THEN Returns(Caught(<<"Twitter API error: ">>))
    ELSE IF Ok(response)
    THEN IF Falsy(response.rest_id)
         THEN Returns(Caught(<<"Tweet creation returned OK but no tweet ID">>))
         ELSE Returns(Succeeded(response.rest_id))
    ELSE Returns(Caught(<<"Failed to post tweet: ", StatusText(response.status)>>))

\* a postTweet that returns the rest_id of an ok response as it is
postTweetAnyId(response) ==
    IF isBotDetected(response) THEN Returns(Caught(BotError))
    ELSE IF isDuplicateError(response) THEN Resubmit
    ELSE IF HasErrorArray(response.data) THEN Returns(Caught(<<"Twitter API error: ">>))
    ELSE IF Ok(response) THEN Returns(Succeeded(response.rest_id))
    ELSE Returns(Caught(<<"Failed to post tweet: ", StatusText(response.status)>>))

\* postTweet, lines 110-155
postTweet(response) ==
    IF isBotDetected(response) THEN Returns(Caught(BotError))
    ELSE IF isDuplicateError(response) THEN Resubmit
    ELSE IF HasErrorArray(response.data) THEN Returns(Caught(<<"Twitter API error: ">>))
    ELSE IF Ok(response)
    THEN IF Falsy(response.rest_id)
         THEN Returns(Caught(<<"Tweet creation returned OK but no tweet ID">>))
         ELSE Returns(Succeeded(response.rest_id))
    ELSE Returns(Caught(<<"Failed to post tweet: ", StatusText(response.status)>>))

\* quoteTweet, lines 246-263
quoteTweet(response) ==
    IF isBotDetected(response) THEN Returns(Caught(BotError))
    ELSE IF isDuplicateError(response) THEN Resubmit
    ELSE IF Ok(response) THEN Returns(Succeeded(response.rest_id))
    ELSE Returns(Caught(<<"Failed to quote tweet: ", StatusText(response.status)>>))

\* reply, lines 297-308
reply(response) ==
    IF isBotDetected(response) THEN Returns(Caught(BotError))
    ELSE IF Ok(response) THEN Returns(Succeeded(response.rest_id))
    ELSE Returns(Caught(<<"Failed to reply: ", StatusText(response.status)>>))

\* likeTweet, retweet, follow, sendDM: return { success: response.ok }
plainAction(response) ==
    IF isBotDetected(response) THEN Returns(Caught(BotError))
    ELSE Returns(SuccessIs(Ok(response)))

Handle(method, response) ==
    CASE method = "postTweet" -> postTweet(response)
      [] method = "quoteTweet" -> quoteTweet(response)
      [] method = "reply" -> reply(response)
      [] OTHER -> plainAction(response)

\* The call in progress: submissions counts the requests the call has made,
\* MaxSubmissions standing for MaxSubmissions or more.
NoAct == [pc |-> "idle", method |-> "none", submissions |-> 0,
          response |-> NoActionResponse, thrown |-> NoErr, result |-> NoActionResult]
AddSubmission(n) == IF n < MaxSubmissions THEN n + 1 ELSE MaxSubmissions

\* a method is called: it awaits its makeRequest call
ActionCall(method) ==
    /\ act.pc \in {"idle", "done"}
    /\ act' = [NoAct EXCEPT !.pc = "await", !.method = method, !.submissions = 1]
    /\ UNCHANGED <<clientVars, camp, val, scr>>

\* makeRequest returns an envelope
ActionResponse(response) ==
    /\ act.pc = "await"
    /\ \E h \in {Handle(act.method, response)} :
          act' = IF h.do = "resubmit"
                 THEN [act EXCEPT !.submissions = AddSubmission(act.submissions),
                                  !.response = response]
                 ELSE [act EXCEPT !.pc = "done", !.response = response,
                                  !.result = h.result]
    /\ UNCHANGED <<clientVars, camp, val, scr>>

\* makeRequest throws: the catch clause returns the message
ActionThrown(err) ==
    /\ act.pc = "await"
    /\ act' = [act EXCEPT !.pc = "done", !.response = NoActionResponse, !.thrown = err,
                          !.result = Caught(err.message)]
    /\ UNCHANGED <<clientVars, camp, val, scr>>

(***************************************************************************)
(* CampaignSystem.runCampaign (unnamed/part_000, lines 987-1109).  The     *)
(* token, user and template lists are the lines loadFile returned; a user   *)
(* is its position in the list.  postTweet and quoteTweet return a result.  *)
(***************************************************************************)
\* the results postTweet and quoteTweet can return
PostResults ==
    {postTweet(resp).result : resp \in {r \in ActionResponses : postTweet(r).do = "return"}}
    \cup {Caught(err.message) : err \in Errors}
QuoteResults ==
    {quoteTweet(resp).result : resp \in {r \in ActionResponses : quoteTweet(r).do = "return"}}
    \cup {Caught(err.message) : err \in Errors}

\* a quotient that is rounded down
Floor(a, b) == a \div b

\* Math.ceil(a / b) for b >= 1
Ceil(a, b) == (a + b - 1) \div b
Min(a, b) == IF a <= b THEN a ELSE b

NoCampaignResult == [totalQuotes |-> 0, successful |-> 0, failed |-> 0, usersMentioned |-> 0]
NoCamp == [pc |-> "idle", tokens |-> 0, users |-> 0, templates |-> 0,
           mentionsPerQuote |-> 0, posts |-> 0, mainTweet |-> NoActionResult,
           mainTweetId |-> Undefined, quotesNeeded |-> 0, i |-> 0, tokenIndex |-> 0,
           userIndex |-> 0, successCount |-> 0, errorCount |-> 0, quotes |-> <<>>,
           lastQuote |-> NoActionResult, stopped |-> FALSE, outcome |-> "none",
           result |-> NoCampaignResult]

\* lines 1091-1108: the result is built and returned
Finish(c) ==
    [c EXCEPT !.pc = "done", !.outcome = "result",
              !.result = [totalQuotes |-> c.successCount + c.errorCount,
                          successful |-> c.successCount,
                          failed |-> c.errorCount,
                          usersMentioned |-> c.userIndex]]

\* lines 1052-1071: the body of the loop up to the quoteTweet call: the next
\* token, the next batch of users, the quote of the main tweet
StartQuote(c) ==
    LET k == Min(c.mentionsPerQuote, c.users - c.userIndex)
    IN [c EXCEPT !.pc = "quote",
                 !.tokenIndex = c.tokenIndex + 1,
                 !.userIndex = c.userIndex + k,
                 !.quotes = Append(c.quotes,
                                   [token |-> (c.tokenIndex % c.tokens) + 1,
                                    tweetId |-> c.mainTweetId,
                                    mentions |-> [j \in 1..k |-> c.userIndex + j]])]

\* line 1050: i < quotesNeeded && userIndex < users.length
LoopOrFinish(c) ==
    IF c.i < c.quotesNeeded /\ c.userIndex < c.users THEN StartQuote(c) ELSE Finish(c)

\* a check of the main tweet that never fails
MainTweetNeverFailed(result) == FALSE

\* line 1027: !mainTweet.success
MainTweetFailed(result) == ~result.success

\* a check of the quote result that never stops the campaign
NeverStopsCampaign(result) == FALSE

\* line 1078: result.error?.includes('226')
StopsCampaign(result) == result.error.defined /\ Includes(result.error.str, "226")

\* runCampaign is called: it loads the three files, throws if a list is empty
\* and otherwise calls postTweet
RunCampaign(tokens, users, templates, mentionsPerQuote) ==
    /\ camp.pc = "idle"
    /\ \E c \in {[NoCamp EXCEPT !.tokens = tokens, !.users = users,
                                !.templates = templates,
                                !.mentionsPerQuote = mentionsPerQuote]} :
          camp' = IF tokens = 0 \/ users = 0 \/ templates = 0
                  THEN [c EXCEPT !.pc = "done", !.outcome = "threw"]
                  ELSE [c EXCEPT !.pc = "post", !.posts = 1]
    /\ UNCHANGED <<clientVars, act, val, scr>>

\* postTweet returns: runCampaign throws on a failure, and otherwise waits
\* and enters the quote loop
MainTweetReturns(result) ==
    /\ camp.pc = "post"
    /\ camp' = IF MainTweetFailed(result)
               THEN [camp EXCEPT !.pc = "done", !.outcome = "threw", !.mainTweet = result]
               ELSE LoopOrFinish([camp EXCEPT
                        !.mainTweet = result,
                        !.mainTweetId = result.id,
                        !.quotesNeeded = Ceil(camp.users, camp.mentionsPerQuote)])
    /\ UNCHANGED <<clientVars, act, val, scr>>

\* quoteTweet returns: the counts, the break on bot detection, the next
\* iteration
QuoteReturns(result) ==
    /\ camp.pc = "quote"
    /\ \E c \in {[camp EXCEPT
                    !.lastQuote = result,
                    !.successCount = IF result.success THEN @ + 1 ELSE @,
                    !.errorCount = IF result.success THEN @ ELSE @ + 1]} :
          camp' = IF ~result.success /\ StopsCampaign(result)
                  THEN Finish([c EXCEPT !.stopped = TRUE])
                  ELSE LoopOrFinish([c EXCEPT !.i = c.i + 1])
    /\ UNCHANGED <<clientVars, act, val, scr>>

(***************************************************************************)
(* TokenValidator (unnamed/part_000, lines 660-921).  The body of a         *)
(* verify_credentials response is raw text, null or an object, which has an *)
(* errors field (absent, a single object or an array) and may hold the      *)
(* user's data (id_str or screen_name).                                     *)
(***************************************************************************)
NotFoundCode == 34
SuspendedCode == 64
ValidationErrorObjects == [code : {0, NotFoundCode, SuspendedCode, BotCode}, message : {<<>>}]
ValidationErrorsFields ==
    {[form |-> "absent", obj |-> NoObj, items |-> <<>>]}
    \cup {[form |-> "single", obj |-> e, items |-> <<>>] : e \in ValidationErrorObjects}
    \cup {[form |-> "array", obj |-> NoObj, items |-> a] :
             a \in UNION {[1..n -> ValidationErrorObjects] : n \in 0..1}}
ValidationBodies ==
    {[type |-> "text", errors |-> NoEnvelope.data.errors, user |-> FALSE],
     [type |-> "null", errors |-> NoEnvelope.data.errors, user |-> FALSE]}
    \cup {[type |-> "object", errors |-> f, user |-> u] :
             f \in ValidationErrorsFields, u \in BOOLEAN}
ValidationResponses == [status : StatusCodes, data : ValidationBodies]
NoValidationResponse ==
    [status |-> 0, data |-> [type |-> "text", errors |-> NoEnvelope.data.errors, user |-> FALSE]]

\* one response of each status whose body holds no errors field
PlainResponses ==
    {resp \in ValidationResponses :
        resp.data.type = "object" /\ resp.data.errors.form = "absent" /\ resp.data.user}

\* error.code === 64 || error.code === 326
IsSuspension(error) == error.code = SuspendedCode

\* validateToken, lines 673-806: the status of its result for an envelope.
\* Reading error.code of data.errors[0] when the array is empty throws a
\* TypeError, which the catch clause turns into the status 'error'.
validateToken(response) ==
    LET data == response.data
        first == data.errors.items[1]
    IN IF HasErrorArray(data) /\ first.code = NotFoundCode THEN "valid"
       ELSE IF HasErrorArray(data) /\ IsSuspension(first) THEN "suspended"
       ELSE IF HasErrorArray(data) /\ first.code = BotCode THEN "bot-detected"
       ELSE IF Ok(response) /\ response.status = 200
       THEN IF data.type = "object" /\ data.user THEN "valid"
            ELSE IF HasErrorArray(data) THEN "invalid"
            ELSE "valid"
       ELSE IF response.status = 401 THEN "invalid"
       ELSE IF response.status = ForbiddenStatus
       THEN IF isBotDetected(response) THEN "bot-detected"
            ELSE IF data.type = "object" /\ data.errors.form = "array"
            THEN IF Len(data.errors.items) = 0 THEN "error" ELSE "suspended"
            ELSE "suspended"
       ELSE IF response.status = 429 THEN "rate-limited"
       ELSE IF isBotDetected(response) THEN "bot-detected"
       ELSE "invalid"

\* The buckets of ValidationResults: the tokens (their positions in the file)
\* pushed to each, in the order they were pushed.
BucketNames == {"valid", "invalid", "suspended", "rateLimited", "botDetected", "errors"}
EmptyBuckets == [b \in BucketNames |-> <<>>]

\* a switch with no default case
BucketOfNoDefault(status) ==
    CASE status = "valid" -> "valid"
      [] status = "invalid" -> "invalid"
      [] status = "suspended" -> "suspended"
      [] status = "rate-limited" -> "rateLimited"
      [] status = "bot-detected" -> "botDetected"
      [] OTHER -> "none"

\* the switch of lines 865-886
BucketOf(status) ==
    CASE status = "valid" -> "valid"
      [] status = "invalid" -> "invalid"
      [] status = "suspended" -> "suspended"
      [] status = "rate-limited" -> "rateLimited"
      [] status = "bot-detected" -> "botDetected"
      [] OTHER -> "errors"

Push(buckets, status, token) ==
    IF BucketOf(status) \in BucketNames
    THEN [buckets EXCEPT ![BucketOf(status)] = Append(@, token)]
    ELSE buckets

\* exportResults, lines 913-921: the summary
Summary(buckets) ==
    [total |-> Len(buckets["valid"]) + Len(buckets["invalid"]) + Len(buckets["suspended"])
                  + Len(buckets["rateLimited"]) + Len(buckets["botDetected"])
                  + Len(buckets["errors"]),
     valid |-> Len(buckets["valid"]),
     invalid |-> Len(buckets["invalid"]),
     suspended |-> Len(buckets["suspended"]),
     rateLimited |-> Len(buckets["rateLimited"]),
     botDetected |-> Len(buckets["botDetected"]),
     errors |-> Len(buckets["errors"])]
NoSummary == [total |-> -1, valid |-> 0, invalid |-> 0, suspended |-> 0,
              rateLimited |-> 0, botDetected |-> 0, errors |-> 0]

NoVal == [pc |-> "idle", tokens |-> 0, i |-> 0, buckets |-> EmptyBuckets,
          response |-> NoValidationResponse, thrown |-> NoErr, status |-> "none",
          processed |-> 0, summary |-> NoSummary]

\* the end of an iteration (the push, i++) and, after the last, the export
AfterToken(v, status) ==
    LET pushed == [v EXCEPT !.buckets = Push(v.buckets, status, v.i + 1),
                            !.processed = v.processed + 1,
                            !.i = v.i + 1]
    IN IF pushed.i < v.tokens
       THEN [pushed EXCEPT !.pc = "validate"]
       ELSE [pushed EXCEPT !.pc = "done", !.summary = Summary(pushed.buckets)]

\* validateFromFile is called on a file of `tokens` non-empty lines: it calls
\* validateToken on the first, or exports the empty results
ValidateFromFile(tokens) ==
    /\ val.pc = "idle"
    /\ val' = IF tokens = 0
              THEN [NoVal EXCEPT !.pc = "done", !.summary = Summary(EmptyBuckets)]
              ELSE [NoVal EXCEPT !.pc = "validate", !.tokens = tokens]
    /\ UNCHANGED <<clientVars, act, camp, scr>>

\* the makeRequest call of validateToken returns an envelope: a valid token
\* goes on to the username lookup, any other is pushed to its bucket
TokenValidated(response) ==
    /\ val.pc = "validate"
    /\ \E status \in {validateToken(response)} :
       \E v \in {[val EXCEPT !.response = response, !.thrown = NoErr,
                             !.status = status]} :
          val' = IF status = "valid" THEN [v EXCEPT !.pc = "username"]
                 ELSE AfterToken(v, status)
    /\ UNCHANGED <<clientVars, act, camp, scr>>

\* the makeRequest call of validateToken throws: the status is 'error'
TokenThrown(err) ==
    /\ val.pc = "validate"
    /\ val' = AfterToken([val EXCEPT !.response = NoValidationResponse, !.thrown = err,
                                     !.status = "error"], "error")
    /\ UNCHANGED <<clientVars, act, camp, scr>>

\* lines 848-863: the username and followers lookups of a valid token end
\* (they return or throw, and what they throw is swallowed)
UsernameLookedUp ==
    /\ val.pc = "username"
    /\ val' = AfterToken(val, val.status)
    /\ UNCHANGED <<clientVars, act, camp, scr>>

\* ---------------------------------------------------------------------------
\* TwitterScraper: scrapeFollowers, scrapeFollowing, scrapeLikers and
\* scrapeRetweeters
\* ---------------------------------------------------------------------------

ScrapeMethods == {"scrapeFollowers", "scrapeFollowing", "scrapeLikers", "scrapeRetweeters"}

\* the methods that resolve a target user before their loop
ResolvesTarget(method) == method \in {"scrapeFollowers", "scrapeFollowing"}

\* What one turn of the loop gets from the server. kind "page": an ok envelope
\* of the GraphQL endpoint; "rest": a 404 of it, then an ok envelope of the REST
\* endpoint with a users array (scrapeFollowers only); "error": an envelope
\* that is not ok, with no usable REST answer. named: the entries of the page
\* that carry a screen name; unnamed: those that do not; cursor: the page
\* names a next page.
Pages ==
    [kind : {"page", "rest", "error"}, named : 0..MaxPage, unnamed : 0..1,
     cursor : BOOLEAN]

\* the pages a method can get
PagesOf(method) ==
    {page \in Pages : page.kind = "rest" => method = "scrapeFollowers"}

NoScr ==
    [pc |-> "idle", method |-> "none", maxResults |-> 0, count |-> 0,
     users |-> <<>>, thrown |-> NoErr]

\* users.push of the named entries of a page, in the page's order: a user is
\* its rank among the users the server has listed
PushUsers(users, named) ==
    users \o [k \in 1..named |-> Len(users) + k]

\* `while (count < maxResults)`: another turn of the loop, or `return users`
WhileCount(s) ==
    IF s.count < s.maxResults THEN [s EXCEPT !.pc = "request"]
    ELSE [s EXCEPT !.pc = "done"]

\* a scrape method is called: scrapeFollowers and scrapeFollowing return the
\* empty list when the target user is not found, the loop starts otherwise
Scrape(method, maxResults, found) ==
    /\ scr.pc \in {"idle", "done"}
    /\ \E s \in {[NoScr EXCEPT !.method = method, !.maxResults = maxResults]} :
          scr' = IF ResolvesTarget(method) /\ ~found THEN [s EXCEPT !.pc = "done"]
                 ELSE WhileCount(s)
    /\ UNCHANGED <<clientVars, act, camp, val>>

\* the request of one turn is answered: an envelope that is not ok breaks the
\* loop; every named entry of a page is pushed and counted, then the loop
\* breaks on a missing cursor or an empty page, and tests its condition
\* otherwise
PageReturned(page) ==
    /\ scr.pc = "request"
    /\ page \in PagesOf(scr.method)
    /\ \E s \in {scr} :
          scr' = IF page.kind = "error" THEN [s EXCEPT !.pc = "done"]
                 ELSE LET pushed == [s EXCEPT !.users = PushUsers(s.users, page.named),
                                              !.count = s.count + page.named]
                      IN IF ~page.cursor \/ page.named + page.unnamed = 0
                         THEN [pushed EXCEPT !.pc = "done"]
                         ELSE WhileCount(pushed)
    /\ UNCHANGED <<clientVars, act, camp, val>>

\* the request of one turn throws: the catch block reports the error and
\* breaks the loop
PageThrown(err) ==
    /\ scr.pc = "request"
    /\ scr' = [scr EXCEPT !.pc = "done", !.thrown = err]
    /\ UNCHANGED <<clientVars, act, camp, val>>

\* the callers of the client are not running
AppIdle == act = NoAct /\ camp = NoCamp /\ val = NoVal /\ scr = NoScr

\* The state after `new TwitterClient()` and initialize(): the rotation mode is
\* the constructor's, the pool is what loadProxies kept.
Init ==
    /\ rotationMode \in RotationModes
    /\ proxies \in {[i \in 1..n |-> i] : n \in 0..MaxProxies}
    /\ proxyHealth = [p \in ProxyIds |-> NoHealth]
    /\ proxyMap = [t \in Tokens |-> NoAgent]
    /\ currentIndex = 0
    /\ now = 0
    /\ tokenCache = [t \in Tokens |-> NoCache]
    /\ req = [r \in Slots |-> IdleReq]
    /\ lastSels = {}
    /\ lastPick = 0
    /\ orig = 0
    /\ origOK = FALSE
    /\ rrHist = <<>>
    /\ envelope = NoEnvelope
    /\ verdict = NoVerdict
    /\ proxyFile = NoFile
    /\ loaded = NotLoaded
    /\ AppIdle

\* The steps of the program with its inputs drawn from the given sets: the
\* slots calls are made in, the identities they are made for, the ct0 a
\* derivation returns, the ct0 a response refreshes (0: none), the status of a
\* response, the error of a failed transport call, what the transport gave
\* before it failed, the callers, whether the identity has a hard-coded ct0.
Step(slots, tokens, derived, refreshes, statuses, errors, lost, callers, overrides) ==
    \/ \E r \in slots, token \in tokens, caller \in callers,
          rnd \in DrawsFor(rotationMode) :
           BeginCached(r, token, caller, rnd)
    \/ \E r \in slots, token \in tokens, caller \in callers, override \in overrides :
           BeginDerivation(r, token, caller, override)
    \/ \E r \in slots, ct0 \in derived,
          rnd1 \in DrawsFor(rotationMode), rnd2 \in DrawsFor(rotationMode) :
           DerivationDone(r, ct0, rnd1, rnd2)
    \/ \E r \in slots, status \in statuses, refresh \in refreshes :
           FetchResponse(r, status, refresh)
    \/ \E r \in slots, err \in errors, resp \in lost,
          rnd1 \in Randoms, rnd2 \in DrawsFor(rotationMode) :
           FetchFail(r, err, resp, rnd1, rnd2)
    \/ \E r \in slots : Return(r)
    \/ Tick

\* the callers of this repository await each makeRequest call before the next
OneAtATime == {CHOOSE r \in Slots : \A q \in Slots : r <= q}

\* Spec: calls made one after another, for every identity.  The proxy pool and
\* the retry loop read neither the ct0 nor the status of a response, and of an
\* error only whether isRetryableError holds of it: every derivation finds the
\* same ct0, no response refreshes it, every response has status 200 and an
\* error is ErrRefused (retryable) or ErrTls (not retryable).
Next == Step(OneAtATime, Tokens, {DerivedCt0}, {0}, {200}, {ErrRefused, ErrTls}, {NoResponse}, {"plain"}, {FALSE})

Spec == Init /\ [][Next]_vars

\* SpecErrors: calls made one after another for one identity, with every
\* transport error.
NextErrors == Step(OneAtATime, {Watched}, {DerivedCt0}, {0}, {200}, Errors, {NoResponse}, {"plain"}, {FALSE})

SpecErrors == Init /\ [][NextErrors]_vars

\* SpecLive: Spec, where every transport call and every derivation completes.
Completes(r) ==
    \/ \E rnd1 \in DrawsFor(rotationMode), rnd2 \in DrawsFor(rotationMode) :
           DerivationDone(r, DerivedCt0, rnd1, rnd2)
    \/ FetchResponse(r, 200, 0)
    \/ \E err \in {ErrRefused, ErrTls}, rnd1 \in Randoms, rnd2 \in DrawsFor(rotationMode) :
           FetchFail(r, err, NoResponse, rnd1, rnd2)

SpecLive == Init /\ [][Next]_vars /\ \A r \in OneAtATime : WF_vars(Completes(r))

\* The program constructs its ProxyManager with the constructor's defaults
\* (httpClient.ts:117): the rotation mode is sticky.
InitDefault == Init /\ rotationMode = "sticky"

\* SpecSession: the program's client, calls made one after another for every
\* identity, with every outcome of a derivation and responses that refresh
\* the ct0 or leave it.
NextSession ==
    Step(OneAtATime, Tokens, DerivedTokens, {0} \cup RefreshedCt0, {200}, {ErrRefused},
         {NoResponse}, {"plain"}, {FALSE})

SpecSession == InitDefault /\ [][NextSession]_vars

\* SpecConcurrent: the program's client with calls for one identity in
\* progress at the same time (nothing in TwitterClient serialises them).
NextConcurrent == Step(Slots, {Watched}, DerivedTokens, {0}, {200}, {ErrTls}, {NoResponse}, {"plain"}, {FALSE})

SpecConcurrent == InitDefault /\ [][NextConcurrent]_vars

\* SpecStatus: calls made one after another for one identity, whose responses
\* have every status and may refresh the ct0, and whose proxied responses may
\* be lost while their body is read.
NextStatus ==
    Step(OneAtATime, {Watched}, {DerivedCt0}, {0} \cup RefreshedCt0, StatusCodes,
         {ErrRefused, ErrTls},
         {NoResponse} \cup {BodyLost(refresh) : refresh \in {0} \cup RefreshedCt0},
         {"plain"}, {FALSE})

SpecStatus == Init /\ [][NextStatus]_vars

\* SpecHeaders: calls made one after another for one identity in sticky mode,
\* by both callers; a response may refresh the ct0, and a proxied response may
\* be lost while its body is read.
NextHeaders ==
    Step(OneAtATime, {Watched}, {DerivedCt0}, {0} \cup RefreshedCt0, {200}, {ErrRefused},
         {NoResponse} \cup {BodyLost(refresh) : refresh \in RefreshedCt0}, Callers, {FALSE})

SpecHeaders == InitDefault /\ [][NextHeaders]_vars

\* SpecDerivation: calls made one after another for one identity, which has a
\* hard-coded ct0 or has none, with every outcome of a derivation.
NextDerivation ==
    Step(OneAtATime, {Watched}, DerivedTokens, {0}, {200}, {ErrRefused, ErrTls},
         {NoResponse}, {"plain"}, BOOLEAN)

SpecDerivation == Init /\ [][NextDerivation]_vars

\* SpecClassifier: the classifier applied to every envelope, in a client that
\* has just been constructed.
InitClassifier ==
    /\ rotationMode = "sticky"
    /\ proxies = <<>>
    /\ proxyHealth = [p \in ProxyIds |-> NoHealth]
    /\ proxyMap = [t \in Tokens |-> NoAgent]
    /\ currentIndex = 0
    /\ now = 0
    /\ tokenCache = [t \in Tokens |-> NoCache]
    /\ req = [r \in Slots |-> IdleReq]
    /\ lastSels = {}
    /\ lastPick = 0
    /\ orig = 0
    /\ origOK = FALSE
    /\ rrHist = <<>>
    /\ envelope \in Envelopes
    /\ verdict = NoVerdict
    /\ proxyFile = NoFile
    /\ loaded = NotLoaded
    /\ AppIdle

NextClassifier == Classify

SpecClassifier == InitClassifier /\ [][NextClassifier]_vars

\* initialize() awaits loadProxies on the proxy file
Load ==
    /\ ~loaded.done
    /\ loaded' = loadProxies(proxyFile)
    /\ UNCHANGED <<appVars, rotationMode, proxies, proxyHealth, proxyMap, currentIndex, now,
                   tokenCache, req, lastSels, lastPick, orig, origOK, rrHist,
                   envelope, verdict, proxyFile>>

\* SpecLoader: loadProxies alone, on every proxy file.
InitLoader ==
    /\ rotationMode = "sticky"
    /\ proxies = <<>>
    /\ proxyHealth = [p \in ProxyIds |-> NoHealth]
    /\ proxyMap = [t \in Tokens |-> NoAgent]
    /\ currentIndex = 0
    /\ now = 0
    /\ tokenCache = [t \in Tokens |-> NoCache]
    /\ req = [r \in Slots |-> IdleReq]
    /\ lastSels = {}
    /\ lastPick = 0
    /\ orig = 0
    /\ origOK = FALSE
    /\ rrHist = <<>>
    /\ envelope = NoEnvelope
    /\ verdict = NoVerdict
    /\ proxyFile \in ProxyFiles
    /\ loaded = NotLoaded
    /\ AppIdle

NextLoader == Load

SpecLoader == InitLoader /\ [][NextLoader]_vars

\* SpecActions: the methods of TwitterActions called one after another on a
\* client just constructed, with every envelope and every error makeRequest
\* gives them.
InitApp ==
    /\ InitDefault
    /\ proxies = <<>>

ActionStep(methods, responses, errors) ==
    \/ \E method \in methods : ActionCall(method)
    \/ \E response \in responses : ActionResponse(response)
    \/ \E err \in errors : ActionThrown(err)

NextActions == ActionStep(Methods, ActionResponses, Errors)

SpecActions == InitApp /\ [][NextActions]_vars

\* SpecActionsLive: postTweet and quoteTweet called one after another, where
\* every makeRequest call completes.  The server answers with status 200 or
\* 226 and an object body whose errors field is absent or an array of at most
\* one error that has a code and no message.
LiveResponses ==
    {resp \in ActionResponses :
        /\ resp.status \in {200, BotCode}
        /\ resp.data.type = "object" /\ resp.data.errors.form # "single"
        /\ \A i \in 1..Len(resp.data.errors.items) : resp.data.errors.items[i].message = <<>>
        /\ resp.rest_id # Defined(<<>>)}

NextActionsLive == ActionStep({"postTweet", "quoteTweet"}, LiveResponses, {ErrRefused})

ActionCompletes ==
    \/ \E response \in LiveResponses : ActionResponse(response)
    \/ ActionThrown(ErrRefused)

SpecActionsLive == InitApp /\ [][NextActionsLive]_vars /\ WF_vars(ActionCompletes)

\* SpecCampaign: one campaign on a client just constructed, for every size of
\* its three lists, every mentionsPerQuote from 1 and every result of its
\* postTweet and quoteTweet calls.
NextCampaign ==
    \/ \E tokens \in 0..MaxCampaignTokens, users \in 0..MaxUsers, templates \in 0..1,
          mentionsPerQuote \in 1..MaxMentions :
           RunCampaign(tokens, users, templates, mentionsPerQuote)
    \/ \E result \in PostResults : MainTweetReturns(result)
    \/ \E result \in QuoteResults : QuoteReturns(result)

SpecCampaign == InitApp /\ [][NextCampaign]_vars

\* SpecCampaignLive: SpecCampaign, where every postTweet and quoteTweet call
\* of the campaign returns.
CampaignCallReturns ==
    \/ \E result \in PostResults : MainTweetReturns(result)
    \/ \E result \in QuoteResults : QuoteReturns(result)

SpecCampaignLive == InitApp /\ [][NextCampaign]_vars /\ WF_vars(CampaignCallReturns)

\* the steps of the validator on files of the given sizes, with the given
\* envelopes and errors
ValidatorStep(sizes, responses, errors) ==
    \/ \E tokens \in sizes : ValidateFromFile(tokens)
    \/ \E response \in responses : TokenValidated(response)
    \/ \E err \in errors : TokenThrown(err)
    \/ UsernameLookedUp

\* SpecValidateToken: validateFromFile on a file of one token, with every
\* envelope and every error makeRequest gives validateToken.
NextValidateToken == ValidatorStep({1}, ValidationResponses, Errors)

SpecValidateToken == InitApp /\ [][NextValidateToken]_vars

\* SpecValidator: validateFromFile on files of up to MaxFileTokens tokens, each
\* answered with an HTTP status and a body with no errors field, or not
\* answered.
NextValidator == ValidatorStep(0..MaxFileTokens, PlainResponses, {ErrRefused})

SpecValidator == InitApp /\ [][NextValidator]_vars

\* SpecScraper: the four scrape methods, called with every maxResults up to
\* MaxResults and answered with every sequence of pages of up to MaxPage
\* users.
NextScraper ==
    \/ \E method \in ScrapeMethods, maxResults \in 0..MaxResults, found \in BOOLEAN :
          Scrape(method, maxResults, found)
    \/ \E page \in Pages : PageReturned(page)
    \/ \E err \in Errors : PageThrown(err)

SpecScraper == InitApp /\ [][NextScraper]_vars

TypeOK ==
    /\ rotationMode \in RotationModes
    /\ now \in 0..MaxTime
    /\ currentIndex \in 0..(IndexModulus - 1)
    /\ \A p \in ProxyIds : proxyHealth[p].gen \in 0..MaxGen
    /\ \A r \in Slots : req[r].pc \in {"idle", "csrf", "fetch", "done"}

(***************************************************************************)
(* The claims.                                                             *)
(***************************************************************************)
Busy(r) == req[r].pc \in {"csrf", "fetch"}
Raised(r) == req[r].pc = "done" /\ req[r].result = "raised"
Returned(r) == req[r].pc = "done" /\ req[r].result = "envelope"
\* the transport call now in flight is a retry
Retrying(r) == req[r].pc = "fetch" /\ req[r].retryCount > 0
\* the health record of p is unhealthy and its cooldown has not elapsed
Cooling(p) ==
    /\ InPool(p) /\ proxyHealth[p].exists /\ ~proxyHealth[p].isHealthy
    /\ InCooldown(proxyHealth[p], now)
\* the health record of p is unhealthy and its cooldown has elapsed
CooledDown(p) ==
    /\ InPool(p) /\ proxyHealth[p].exists /\ ~proxyHealth[p].isHealthy
    /\ ~InCooldown(proxyHealth[p], now)
IsEligible(p) ==
    \E i \in 1..Len(getHealthyProxies(proxyHealth, now)) :
        getHealthyProxies(proxyHealth, now)[i] = p

C2_RetryUsesDifferentProxy ==
    \A r \in Slots : Retrying(r) => req[r].agent.proxy # req[r].prevProxy

\* C3 (as stated): a proxied attempt that fails with a retryable error while
\* fewer than maxRetries retries were made is followed by another attempt: no
\* failure is raised to the caller then.
C3_RetryableFailureIsRetried ==
    \A r \in Slots :
        Raised(r) /\ req[r].useProxy /\ isRetryableError(req[r].lastErr)
            => req[r].retryCount >= MaxRetries

\* C4 (as stated): when the transport fails maxRetries times with a retryable
\* error and answers the next attempt, a proxied makeRequest returns the
\* envelope, with exactly maxRetries proxy failures and one proxy success
\* recorded.  (What the transport answers to a later attempt does not depend on
\* the code: a call that raises a retryable failure before its last attempt is
\* a call whose transport would have gone on like that.)
C4_TwoFailuresThenSuccess ==
    \A r \in Slots :
        /\ req[r].pc = "done" /\ req[r].useProxy
        /\ \/ req[r].result = "raised" /\ isRetryableError(req[r].lastErr)
                 /\ req[r].attempts <= MaxRetries
           \/ req[r].result = "envelope" /\ req[r].attempts = MaxRetries + 1
        => /\ req[r].result = "envelope"
           /\ req[r].failReports = MaxRetries
           /\ req[r].succReports = 1

\* the state of every call: what it has done and what it ended with
C5_StateOK ==
    \A r \in Slots :
        /\ req[r].attempts <= MaxRetries + 1
        /\ req[r].retryCount <= MaxRetries
        /\ Busy(r) => req[r].result = "none"
        /\ Returned(r) => req[r].raisedErr = NoErr /\ req[r].raisedTag = "none"
        /\ Raised(r) => /\ req[r].raisedErr # NoErr
                        /\ req[r].raisedErr = req[r].lastErr
                        /\ req[r].raisedTag = FailureTag(req[r].lastErr)
\* a step of a call whose transport call is in flight ends the call or is
\* the next attempt
C5_StepOK ==
    \A r \in Slots :
        req[r].pc = "fetch" /\ req'[r] # req[r]
            => \/ req'[r].pc = "done"
               \/ /\ req'[r].pc = "fetch"
                  /\ req'[r].retryCount = req[r].retryCount + 1
                  /\ req'[r].attempts = req[r].attempts + 1
\* C5: a makeRequest call makes at most maxRetries + 1 transport attempts; it
\* ends with an envelope or with one failure, which carries the error of its
\* last attempt; every transport call that completes ends the call or is
\* followed by the next attempt, and a call whose transport calls complete ends.
C5_BoundedAndCompletes ==
    /\ []C5_StateOK
    /\ [][C5_StepOK]_vars
    /\ \A r \in Slots : (req[r].pc = "fetch") ~> (req[r].pc = "done")

\* C5 witness: a call has raised a failure after its last allowed attempt, the
\* error of which differs from the error of an earlier attempt.
C5_Witness ==
    \E r \in Slots :
        /\ Raised(r) /\ req[r].attempts = MaxRetries + 1
        /\ req[r].raisedErr = ErrTls

\* the four kinds the specification calls retryable
RetryableKinds == {"connection-refused", "dns", "timeout", "connection-reset"}

\* C6 (as stated): a transport failure is retried only when its kind is
\* connection-refused, DNS-resolution-failure, timeout or connection-reset; a
\* TLS failure or a generic failure is never retried.
C6_RetriedOnlyForFourKinds ==
    \A r \in Slots : Retrying(r) => req[r].lastErr.kind \in RetryableKinds

\* the marks of an error that the retry loop looks for
HasRetryMark(err) ==
    \/ \E x \in {"ECONNREFUSED", "ENOTFOUND", "timeout", "ETIMEDOUT", "fetch failed"} :
           Includes(err.message, x)
    \/ err.code \in {"ENOTFOUND", "ECONNREFUSED", "ETIMEDOUT", "ECONNRESET"}

\* C6 (amended): a transport failure is retried only when its message contains
\* ECONNREFUSED, ENOTFOUND, timeout, ETIMEDOUT or 'fetch failed', or its code is
\* ENOTFOUND, ECONNREFUSED, ETIMEDOUT or ECONNRESET; a failure with none of
\* these marks is raised to the caller by the attempt it occurs on.
C6_RetriedOnlyWithRetryMark ==
    \A r \in Slots :
        /\ Retrying(r) => HasRetryMark(req[r].lastErr)
        /\ req[r].lastErr # NoErr /\ ~HasRetryMark(req[r].lastErr) => Raised(r)

\* C6 witness: a generic 'fetch failed' failure has been retried.
C6_Witness ==
    \E r \in Slots : Retrying(r) /\ req[r].lastErr = ErrFetchFailed

\* C7: with no proxy in use, a transport failure of any kind is raised after
\* exactly one transport attempt, and no health record is changed.
C7_DirectNeverRetried ==
    \A r \in Slots :
        /\ req[r].pc = "fetch" /\ ~req[r].useProxy => req[r].attempts = 1
        /\ Raised(r) /\ ~req[r].useProxy
              => /\ req[r].attempts = 1
                 /\ req[r].failReports = 0
                 /\ req[r].healthKept
                 /\ \A p \in ProxyIds : ~proxyHealth[p].exists

\* C7 witness: a direct call has raised a failure of a retryable kind.
C7_Witness ==
    \E r \in Slots :
        Raised(r) /\ ~req[r].useProxy /\ isRetryableError(req[r].lastErr)

\* C8: in sticky mode, while the proxy first assigned to an identity has stayed
\* healthy, every getProxyForToken call for that identity returns that proxy.
C8_StickySameProxy ==
    rotationMode = "sticky" /\ orig # 0 /\ origOK => lastPick = orig

\* C8 witness: the watched identity is on a retry (a later selection) through
\* the proxy first assigned to it, after a failure on that proxy, while another
\* identity is assigned the other proxy.
C8_Witness ==
    /\ rotationMode = "sticky" /\ orig # 0 /\ origOK /\ lastPick = orig
    /\ \E r \in Slots : Retrying(r) /\ req[r].token = Watched
    /\ proxyHealth[orig].failures > 0
    /\ \E t \in Tokens : t # Watched /\ proxyMap[t] # NoAgent /\ proxyMap[t].proxy # orig

\* C9: in round-robin mode, consecutive getProxyForToken calls made with all N
\* proxies healthy return N different proxies before one repeats.
C9_RoundRobinVisitsAll ==
    \A i, j \in 1..Len(rrHist) : i # j => rrHist[i] # rrHist[j]

\* C9 witness: N >= 2 consecutive selections were made with every proxy healthy.
C9_Witness ==
    /\ rotationMode = "round-robin"
    /\ Len(proxies) = MaxProxies /\ Len(proxies) >= 2
    /\ Len(rrHist) = Len(proxies)

\* the body's error list (single object or array) holds an error with code 226
HasBotError(data) ==
    /\ data.type = "object"
    /\ \/ data.errors.form = "single" /\ data.errors.obj.code = BotCode
       \/ data.errors.form = "array"
            /\ \E i \in 1..Len(data.errors.items) : data.errors.items[i].code = BotCode

\* C10 (as stated): isBotDetected reports detected exactly when the status is
\* 226 or the body's error list holds an error with code 226, for every status.
C10_BotDetectedForEveryStatus ==
    verdict.done
        => (verdict.detected <=> (envelope.status = BotCode \/ HasBotError(envelope.data)))

\* the body's error list holds an error with code 187 or a message that
\* contains "duplicate"
HasDuplicateError(data) ==
    /\ data.type = "object"
    /\ \/ /\ data.errors.form = "single"
          /\ \/ data.errors.obj.code = DuplicateCode
             \/ \E k \in 1..Len(data.errors.obj.message) :
                    data.errors.obj.message[k] = "duplicate"
       \/ /\ data.errors.form = "array"
          /\ \E i \in 1..Len(data.errors.items) :
               \/ data.errors.items[i].code = DuplicateCode
               \/ \E k \in 1..Len(data.errors.items[i].message) :
                      data.errors.items[i].message[k] = "duplicate"

\* C11: isDuplicateError reports duplicate exactly when the body's error list
\* holds an error with code 187 or with a message containing "duplicate",
\* whatever the status.
C11_DuplicateForEveryStatus ==
    verdict.done => (verdict.duplicate <=> HasDuplicateError(envelope.data))

\* C11 witness: a response of status 200 whose body carries the duplicate error
\* by its message only has been classified as a duplicate.
C11_Witness ==
    /\ verdict.done /\ verdict.duplicate
    /\ envelope.status = 200
    /\ envelope.data.errors.form = "array"
    /\ \A i \in 1..Len(envelope.data.errors.items) :
           envelope.data.errors.items[i].code # DuplicateCode

\* the envelope with its single error object wrapped in an array
AsArray(response) ==
    [response EXCEPT !.data.errors = [form |-> "array", obj |-> NoObj,
                                      items |-> <<response.data.errors.obj>>]]

\* C12: for every status and every error object e, both checks give the same
\* result on a body {errors: e} as on a body {errors: [e]}.
C12_SingleFormLikeArrayForm ==
    verdict.done /\ envelope.data.type = "object" /\ envelope.data.errors.form = "single"
        => /\ verdict.detected = isBotDetected(AsArray(envelope))
           /\ verdict.duplicate = isDuplicateError(AsArray(envelope))

\* C12 witness: a single-object body has been classified as bot-detected, and
\* another as a duplicate.
C12_Witness ==
    /\ verdict.done /\ envelope.data.type = "object" /\ envelope.data.errors.form = "single"
    /\ envelope.status = ForbiddenStatus
    /\ verdict.detected /\ verdict.duplicate

\* a step of the classifier leaves everything but its result as it was
C13_FrameOK ==
    verdict' # verdict
        => UNCHANGED <<rotationMode, proxies, proxyHealth, proxyMap, currentIndex,
                       tokenCache, req, envelope>>
\* C13: isBotDetected and isDuplicateError are pure: they leave the session
\* cache, the proxy assignments, the health records and the envelope unchanged,
\* and two calls on the same envelope return the same result.
C13_ClassifierIsPure ==
    /\ [][C13_FrameOK]_vars
    /\ [](verdict.calls >= 2 => /\ verdict.detected = verdict.prev.detected
                                /\ verdict.duplicate = verdict.prev.duplicate)

\* C13 witness: an envelope with a bot error and a duplicate error has been
\* classified twice.
C13_Witness ==
    /\ verdict.calls >= 2 /\ verdict.detected /\ verdict.duplicate
    /\ envelope.data.type = "object"

\* the derivations in flight for an identity
InFlight(t) == {r \in Slots : req[r].pc = "csrf" /\ req[r].token = t}

\* C14 (as stated): at any moment at most one ct0 derivation is in flight per
\* identity, also when several calls for the identity start before the first
\* derivation completes.
C14_OneDerivationInFlight == \A t \in Tokens : Cardinality(InFlight(t)) <= 1

\* a call starts a derivation only when the identity has no session entry
C14_StartsOnMiss ==
    \A r \in Slots :
        req[r].pc # "csrf" /\ req'[r].pc = "csrf" => ~tokenCache[req'[r].token].has
\* C14 (amended): a call starts a derivation only when the identity has no
\* session entry at that moment, and runs one derivation at most; derivations
\* in flight are not de-duplicated, so there are as many as there are calls
\* that found no entry.
C14_OneDerivationPerMiss ==
    /\ [][C14_StartsOnMiss]_vars
    /\ [](\A r \in Slots : /\ req[r].derivations <= 1
                           /\ req[r].pc = "csrf" => req[r].derivations = 1)

\* C14 witness: every slot holds a call for the same identity whose derivation
\* is in flight.
C14_Witness ==
    /\ Cardinality(Slots) >= 2
    /\ \A r \in Slots : req[r].pc = "csrf" /\ req[r].token = Watched

\* session entries are never removed
C15_EntriesKept == \A t \in Tokens : tokenCache[t].has => tokenCache'[t].has
\* a getCSRFToken call made while the identity has a session entry (at the
\* start of a call or of a retry) returns the cached token and derives nothing
C15_HitReturnsCached ==
    \A r \in Slots :
        /\ \/ req[r].pc = "idle" /\ req'[r].pc # "idle"
           \/ req[r].pc = "fetch" /\ req'[r].pc = "fetch" /\ req'[r] # req[r]
        /\ tokenCache[req'[r].token].has
        => /\ req'[r].pc = "fetch"
           /\ req'[r].ct0 = tokenCache[req'[r].token].ct0
           /\ req'[r].derivations = req[r].derivations
\* C15: once a session entry exists for an identity, every later getCSRFToken
\* call for it returns the cached token without a derivation, and entries are
\* never removed (also when the cached token is a fallback token).
C15_CachedAfterFirstDerivation ==
    /\ [][C15_EntriesKept]_vars
    /\ [][C15_HitReturnsCached]_vars

\* C15 witness: a call that derived nothing is under way with the fallback
\* token an earlier call cached.
C15_Witness ==
    \E r \in Slots :
        /\ req[r].pc = "fetch" /\ req[r].derivations = 0
        /\ req[r].ct0 = FallbackCt0
        /\ tokenCache[req[r].token] = [has |-> TRUE, ct0 |-> FallbackCt0]

\* the step that ends a derivation: getCSRFToken returns a non-empty token,
\* which is the session entry of the identity, and the call goes on to its
\* transport call
C16_DerivationEnds ==
    \A r \in Slots :
        req[r].pc = "csrf" /\ req'[r] # req[r]
            => /\ req'[r].pc = "fetch"
               /\ req'[r].token = req[r].token
               /\ req'[r].ct0 # 0
               /\ tokenCache'[req[r].token] = [has |-> TRUE, ct0 |-> req'[r].ct0]
               /\ req'[r].derivations = 1
\* C16: for an identity with no session entry, getCSRFToken makes exactly one
\* derivation attempt and returns a non-empty token, which it stores under the
\* identity, also when the derivation fails; what a call raises is the error
\* of a transport call, never a derivation failure.
C16_DerivationNeverFails ==
    /\ [][C16_DerivationEnds]_vars
    /\ [](\A r \in Slots :
             /\ req[r].derivations <= 1
             /\ req[r].pc = "csrf" => req[r].derivations = 1 /\ req[r].result = "none"
             /\ Raised(r) => req[r].attempts >= 1 /\ req[r].raisedErr \in Errors)

\* C16 witness: a call for an identity that had no session entry goes on with
\* the fallback token of its one derivation, which is now the session entry.
C16_Witness ==
    \E r \in Slots :
        /\ req[r].pc = "fetch" /\ req[r].derivations = 1 /\ req[r].attempts = 1
        /\ req[r].ct0 = FallbackCt0
        /\ tokenCache[req[r].token] = [has |-> TRUE, ct0 |-> FallbackCt0]

\* a response that carries a refreshed ct0 leaves it in the session entry of
\* the identity of the call
C17_RefreshStored ==
    \A r \in Slots :
        req[r].pc = "fetch" /\ req'[r].pc = "done" /\ req'[r].refreshed # 0
            => tokenCache'[req[r].token] = [has |-> TRUE, ct0 |-> req'[r].refreshed]
\* with no derivation running beside it, an existing session entry changes
\* only by a response of its identity that carries a refreshed ct0
C17_OnlyNewerRefreshReplaces ==
    \A t \in Tokens :
        tokenCache[t].has /\ tokenCache'[t] # tokenCache[t]
            => \E r \in Slots :
                   /\ req[r].pc = "fetch" /\ req[r].token = t
                   /\ req'[r].pc = "done" /\ req'[r].refreshed # 0
                   /\ tokenCache'[t].ct0 = req'[r].refreshed
\* a getCSRFToken call for an identity with an entry, at the start of a call
\* or of a retry, returns the ct0 of the entry
C17_NextCallReturnsEntry ==
    \A r \in Slots :
        /\ req'[r].pc = "fetch"
        /\ req'[r].attempts # req[r].attempts
        /\ tokenCache[req'[r].token].has
        => req'[r].ct0 = tokenCache[req'[r].token].ct0
\* C17: after a response carrying a refreshed ct0 X for an identity, and with
\* no derivation of that identity running at the same time, the next
\* getCSRFToken call for the identity returns X; a newer refresh replaces an
\* older one.
C17_RefreshedCt0IsReturnedNext ==
    /\ [][C17_RefreshStored]_vars
    /\ [][C17_OnlyNewerRefreshReplaces]_vars
    /\ [][C17_NextCallReturnsEntry]_vars

\* C17 witness: a call that was given a refreshed ct0 by getCSRFToken has
\* received a response with a newer one, which is now the session entry.
C17_Witness ==
    \E r \in Slots :
        /\ Returned(r) /\ req[r].derivations = 0
        /\ req[r].ct0 \in RefreshedCt0 /\ req[r].refreshed \in RefreshedCt0
        /\ req[r].refreshed # req[r].ct0
        /\ tokenCache[req[r].token].ct0 = req[r].refreshed

\* C18: session entries are isolated per identity: a step of a call made for
\* one identity (its derivation, fallback, ct0 refresh, retries, return)
\* neither creates nor changes the session entry of any other identity.
C18_EntriesIsolated ==
    [][\A r \in Slots : \A t \in Tokens :
           /\ req'[r] # req[r]
           /\ t # (IF req[r].pc = "idle" THEN req'[r].token ELSE req[r].token)
           => tokenCache'[t] = tokenCache[t]]_vars

\* C18 witness: a call for one identity has stored a refreshed ct0 in its
\* entry while another identity keeps the fallback token it derived.
C18_Witness ==
    \E r \in Slots : \E t \in Tokens :
        /\ Returned(r) /\ req[r].refreshed # 0
        /\ t # req[r].token
        /\ tokenCache[req[r].token] = [has |-> TRUE, ct0 |-> req[r].refreshed]
        /\ tokenCache[t] = [has |-> TRUE, ct0 |-> FallbackCt0]

\* the identities t and u both have a sticky assignment, to the same proxy
SharesProxy(t, u) ==
    /\ proxyMap[t] # NoAgent /\ proxyMap[u] # NoAgent
    /\ proxyMap[t].proxy = proxyMap[u].proxy
NoFailureYet == \A p \in ProxyIds : proxyHealth[p].lastFailure = NoTime

C19_OwnAssignment ==
    \A r \in Slots : \A t \in Tokens :
        /\ req'[r] # req[r]
        /\ t # (IF req[r].pc = "idle" THEN req'[r].token ELSE req[r].token)
        => proxyMap'[t] = proxyMap[t]
ValidEntry(proxy) ==
    /\ proxy.host.defined /\ proxy.host.str # <<>>
    /\ proxy.port.defined /\ proxy.port.str # <<>>
    /\ ~IncludesStr(proxy.host.str, <<"example">>)
    /\ proxy.host.str # <<"localhost">>
    /\ proxy.host.str # <<"127.0.0.1">>
\* C20: loadProxies stores exactly the valid entries of the source, in source
\* order: every invalid entry, also one whose host or port field is missing,
\* is dropped on its own without removing a valid entry; loadProxies never
\* fails.
C20_LoadsExactlyValidEntries ==
    loaded.done
        => /\ ~loaded.failed
           /\ proxyFile.readable
                  => loaded.proxies = SelectSeq(AllProxies(proxyFile.lines), ValidEntry)

\* C21: whenever the static pool is empty, getProxyForToken and getRandomAgent
\* return null for every identity and leave the health records as they are;
\* makeRequest then takes the direct path, and no health record is created or
\* changed.
C21_EmptyPoolMeansDirect ==
    Len(proxies) = 0
        => /\ \A t \in Tokens : \A rnd \in Randoms :
                  /\ getProxyForToken(PMState, t, now, rnd).agent = NoAgent
                  /\ getProxyForToken(PMState, t, now, rnd).s = PMState
                  /\ getRandomAgent(PMState, now, rnd).agent = NoAgent
                  /\ getRandomAgent(PMState, now, rnd).s = PMState
           /\ \A r \in Slots :
                  req[r].pc # "idle" /\ req[r].attempts > 0
                      => /\ ~req[r].useProxy /\ req[r].agent = NoAgent
                         /\ req[r].failReports = 0 /\ req[r].succReports = 0
           /\ \A p \in ProxyIds : proxyHealth[p] = NoHealth
           /\ \A t \in Tokens : proxyMap[t] = NoAgent

\* C21 witness: with an empty pool a call has had its response over the direct
\* path.
C21_Witness ==
    /\ Len(proxies) = 0
    /\ \E r \in Slots : Returned(r) /\ ~req[r].useProxy /\ req[r].attempts = 1

\* the agent is one of a proxy of the pool, and this proxy is unhealthy and in
\* its cooldown in the state s only if no proxy is eligible in s
PoolProxyNotCooling(s, agent) ==
    /\ agent # NoAgent /\ InPool(agent.proxy)
    /\ /\ s.health[agent.proxy].exists
       /\ ~s.health[agent.proxy].isHealthy
       /\ InCooldown(s.health[agent.proxy], now)
       => Len(getHealthyProxies(s.health, now)) = 0
C23_ReportsOK(p) ==
    /\ markProxyFailed(proxyHealth, p, now)[p].failures = proxyHealth[p].failures + 1
    /\ markProxyFailed(proxyHealth, p, now)[p].isHealthy
           = (proxyHealth[p].failures + 1 < MaxFailures)
    /\ markProxySuccess(proxyHealth, p)[p].failures = 0
    /\ markProxySuccess(proxyHealth, p)[p].isHealthy
    /\ \A q \in ProxyIds :
           q # p => /\ markProxyFailed(proxyHealth, p, now)[q] = proxyHealth[q]
                    /\ markProxySuccess(proxyHealth, p)[q] = proxyHealth[q]
\* a proxied attempt fails and nothing is selected after the report: the
\* record of its proxy is as markProxyFailed leaves it
C23_FailedStep ==
    \A r \in Slots :
        /\ req[r].pc = "fetch" /\ req'[r].pc = "done"
        /\ req'[r].failReports = req[r].failReports + 1
        /\ ~AsksRetry(req'[r].lastErr, req[r].retryCount, req[r].useProxy)
        => /\ proxyHealth'[req[r].agent.proxy].failures
                  = proxyHealth[req[r].agent.proxy].failures + 1
           /\ proxyHealth'[req[r].agent.proxy].isHealthy
                  = (proxyHealth'[req[r].agent.proxy].failures < MaxFailures)
\* a proxied attempt gets its response: the record of its proxy is reset
C23_SucceededStep ==
    \A r \in Slots :
        /\ req[r].pc = "fetch" /\ req'[r].pc = "done"
        /\ req'[r].succReports = req[r].succReports + 1
        => /\ proxyHealth'[req[r].agent.proxy].failures = 0
           /\ proxyHealth'[req[r].agent.proxy].isHealthy
\* C23: markProxyFailed increments the failure count of the proxy by one and
\* marks it unhealthy exactly when the count reaches maxFailures;
\* markProxySuccess resets the count to 0 and sets the proxy healthy whatever
\* its state was, also during its cooldown.
C23_FailureAndSuccessReports ==
    /\ [](\A p \in ProxyIds : proxyHealth[p].exists => C23_ReportsOK(p))
    /\ [][C23_FailedStep]_vars
    /\ [][C23_SucceededStep]_vars

\* C23 witness: an attempt is in flight through a proxy that the failures of
\* other calls have made unhealthy and that is in its cooldown; its agent is
\* still the one of the record, so that its response resets the record.
C23_Witness ==
    \E r \in Slots :
        /\ req[r].pc = "fetch" /\ req[r].useProxy
        /\ Cooling(req[r].agent.proxy)
        /\ proxyHealth[req[r].agent.proxy].failures = MaxFailures
        /\ getProxyUrlForAgent(proxyHealth, req[r].agent) = req[r].agent.proxy
        /\ markProxySuccess(proxyHealth, req[r].agent.proxy)[req[r].agent.proxy].isHealthy

\* C24: in every reachable state and for every health record, isHealthy =
\* false implies failures >= maxFailures and isHealthy = true implies
\* failures < maxFailures.
C24_HealthyIffBelowMaxFailures ==
    \A p \in ProxyIds :
        proxyHealth[p].exists
            => /\ ~proxyHealth[p].isHealthy => proxyHealth[p].failures >= MaxFailures
               /\ proxyHealth[p].isHealthy => proxyHealth[p].failures < MaxFailures

\* C24 witness: one record is unhealthy after maxFailures failures while
\* another is healthy with failures counted on it.
C24_Witness ==
    \E p, q \in ProxyIds :
        /\ proxyHealth[p].exists /\ ~proxyHealth[p].isHealthy
        /\ proxyHealth[p].failures = MaxFailures
        /\ proxyHealth[q].exists /\ proxyHealth[q].isHealthy
        /\ proxyHealth[q].failures > 0

\* the transport of the attempt of r returns a response in this step
Responds(r) ==
    req[r].pc = "fetch" /\ req'[r].responses = req[r].responses + 1
\* the step records a proxy success and no proxy failure for the proxy of r
C25_RecordedAsSuccess(r) ==
    /\ req'[r].failReports = req[r].failReports
    /\ req[r].useProxy
           => /\ req'[r].succReports = req[r].succReports + 1
              /\ proxyHealth'[req[r].agent.proxy].failures = 0
              /\ proxyHealth'[req[r].agent.proxy].isHealthy

\* C25 as stated: whenever the transport call returns a response, whatever its
\* status, makeRequest returns an envelope carrying that status and never
\* raises, and for a proxied call the outcome is recorded as a proxy success,
\* not as a proxy failure.
C25_ResponseIsReturned ==
    [][\A r \in Slots :
           Responds(r) => /\ req'[r].pc = "done" /\ req'[r].result = "envelope"
                          /\ req'[r].status \in StatusCodes
                          /\ C25_RecordedAsSuccess(r)]_vars

\* a step of r in which a response arrives and makeRequest returns
C25_BodyRead ==
    \A r \in Slots :
        Responds(r) /\ req'[r].pc = "done" /\ req'[r].result = "envelope"
            => /\ req'[r].status \in StatusCodes
               /\ C25_RecordedAsSuccess(r)
\* a step of r in which a response arrives and makeRequest does not return:
\* the call is proxied and reading the body failed after the success report
C25_BodyLost ==
    \A r \in Slots :
        Responds(r) /\ ~(req'[r].pc = "done" /\ req'[r].result = "envelope")
            => /\ req[r].useProxy
               /\ req'[r].lastErr \in Errors
               /\ req'[r].succReports = req[r].succReports + 1
               /\ req'[r].failReports = req[r].failReports + 1
\* C25 amended: whenever the transport call returns a response and its body is
\* read, whatever the status, makeRequest returns an envelope carrying that
\* status, and for a proxied call the outcome is recorded as a proxy success,
\* not as a proxy failure.  A response is not returned only when the call is
\* proxied and reading the body fails: the outcome is then recorded as a
\* success and as a failure, and the call is retried or raises as for any
\* transport failure.
C25_ResponseWithBodyIsReturned ==
    /\ [][C25_BodyRead]_vars
    /\ [][C25_BodyLost]_vars
    /\ [](\A r \in Slots : /\ req[r].lastErr = NoErr /\ req[r].responses > 0 => Returned(r)
                           /\ ~req[r].useProxy /\ req[r].responses > 0 => Returned(r)
                           /\ Returned(r) => req[r].status \in StatusCodes)

\* C25 witness: a proxied call whose first attempt failed has returned the
\* envelope of a response with status 500, and the record of its proxy is
\* reset.
C25_Witness ==
    \E r \in Slots :
        /\ Returned(r) /\ req[r].useProxy /\ req[r].status = 500
        /\ req[r].failReports = 1 /\ req[r].succReports = 1
        /\ proxyHealth[req[r].agent.proxy].failures = 0
        /\ proxyHealth[req[r].agent.proxy].isHealthy

\* C26: for every proxied transport attempt that completes, the health record
\* of the proxy that carried it is updated (its failure count incremented on a
\* transport failure, reset on a response), also when other calls select
\* proxies or report outcomes between the start and the completion of the
\* attempt: no outcome report is lost.
C26_NoOutcomeReportLost ==
    [][\A r \in Slots :
           req[r].pc = "fetch" /\ req[r].useProxy /\ req'[r].pc = "done"
               => IF req'[r].result = "envelope"
                  THEN /\ proxyHealth'[req[r].agent.proxy].failures = 0
                       /\ proxyHealth'[req[r].agent.proxy].isHealthy
                  ELSE ~AsksRetry(req'[r].lastErr, req[r].retryCount, req[r].useProxy)
                           => proxyHealth'[req[r].agent.proxy].failures
                                  = proxyHealth[req[r].agent.proxy].failures + 1]_vars

\* C27: every outbound request built by makeRequest carries a cookie header
\* pairing the identity with a ct0 value and an x-csrf-token header equal to
\* that same ct0 value, which is the session-store token of the identity at the
\* time the transport call is issued (with calls made one after another, the
\* token of the store for as long as the transport call is in flight).
C27_HeadersCarryCurrentCt0 ==
    \A r \in Slots :
        req[r].pc = "fetch"
            => /\ req[r].headers.cookie = CookiePair(req[r].token, req[r].headers.csrf)
               /\ req[r].headers.csrf # 0
               /\ req[r].headers.csrf = tokenCache[req[r].token].ct0
               /\ req[r].headers.Cookie \in {NoCookie, req[r].headers.cookie}

\* the step is the entry of a makeRequest call up to its transport call: it
\* selects a proxy and reports no outcome
SelectsOnly ==
    \E r \in Slots : req[r].pc \in {"idle", "csrf"} /\ req'[r].pc = "fetch"
\* C28: a proxy's failure count and healthy flag change only through
\* markProxyFailed, markProxySuccess and the promotion at the end of the
\* cooldown: selecting a proxy (getProxyForToken, getRandomAgent, the fallback
\* to the whole pool included) while it is unhealthy and its cooldown has not
\* elapsed leaves its failure count, healthy flag and lastFailure unchanged.
C28_SelectionKeepsHealth ==
    [][\A p \in ProxyIds :
           Cooling(p) /\ SelectsOnly
               => /\ proxyHealth'[p].failures = proxyHealth[p].failures
                  /\ proxyHealth'[p].isHealthy = proxyHealth[p].isHealthy
                  /\ proxyHealth'[p].lastFailure = proxyHealth[p].lastFailure]_vars

\* a makeRequest call for the identity t selects its proxy in this step and
\* reports no outcome: the slot of the call
BeginsFor(r, t) ==
    /\ req[r].pc \in {"idle", "csrf"} /\ req'[r].pc = "fetch" /\ req'[r].token = t
\* the assigned proxy of t is not eligible while another proxy is: the call is
\* given an eligible proxy, which becomes the assignment of t
C29_Reassigned ==
    \A r \in Slots : \A t \in Tokens :
        /\ rotationMode = "sticky" /\ BeginsFor(r, t)
        /\ proxyMap[t] # NoAgent /\ ~IsEligible(proxyMap[t].proxy)
        /\ \E p \in ProxyIds : IsEligible(p)
        => /\ IsEligible(req'[r].agent.proxy)
           /\ req'[r].agent.proxy # proxyMap[t].proxy
           /\ proxyMap'[t] = req'[r].agent
\* the assignment of t is the agent of a healthy record: the call is given it
\* and it stays the assignment, whatever the state of the other proxies
C29_Kept ==
    \A r \in Slots : \A t \in Tokens :
        /\ rotationMode = "sticky" /\ BeginsFor(r, t)
        /\ proxyMap[t] # NoAgent
        /\ AgentOf(proxyHealth, proxyMap[t].proxy) = proxyMap[t]
        /\ proxyHealth[proxyMap[t].proxy].isHealthy
        => /\ req'[r].agent = proxyMap[t]
           /\ proxyMap'[t] = proxyMap[t]
\* C29: in sticky mode, when the assigned proxy of an identity is not eligible
\* and at least one other proxy is, getProxyForToken returns an eligible proxy
\* and records it as the new assignment of the identity; later selections for
\* the identity return the new proxy for as long as it stays healthy, also
\* after the old proxy has recovered.
C29_StickyReassignment ==
    /\ [][C29_Reassigned]_vars
    /\ [][C29_Kept]_vars

\* C29 witness: the watched identity, first assigned a proxy that became
\* unhealthy, has a call in flight through its new assignment although the
\* cooldown of the old proxy has elapsed.
C29_Witness ==
    /\ rotationMode = "sticky" /\ orig # 0 /\ CooledDown(orig)
    /\ proxyMap[Watched] # NoAgent /\ proxyMap[Watched].proxy # orig
    /\ \E r \in Slots :
          /\ req[r].pc = "fetch" /\ req[r].token = Watched /\ req[r].retryCount = 0
          /\ req[r].agent = proxyMap[Watched]
          /\ proxyHealth[req[r].agent.proxy].lastFailure = NoTime

\* the API request of the call in slot r goes out through a proxy of the pool
ApiCallProxied(r) ==
    req[r].pc = "fetch"
        => req[r].useProxy /\ req[r].agent # NoAgent /\ InPool(req[r].agent.proxy)
\* the request the derivation of the call in slot r has sent goes out through
\* a proxy of the pool
DerivationCallProxied(r) ==
    req[r].csrfCall
        => req[r].csrfAgent # NoAgent /\ InPool(req[r].csrfAgent.proxy)
\* C30: when the proxy pool is non-empty, no network call made on behalf of an
\* identity goes out over a direct connection: the request of the ct0
\* derivation goes through a proxy, as the API requests of the identity do.
C30_NoDirectCallWithPool ==
    \A r \in Slots :
        Len(proxies) > 0 => ApiCallProxied(r) /\ DerivationCallProxied(r)

\* the call has returned: what makeRequest gave it last
ActionDone == act.pc = "done"
GotThrown == act.thrown # NoErr
GotResponse == act.thrown = NoErr
\* the result is { success: false, error } with an error message
FailedWithError == ~act.result.success /\ act.result.error.defined
\* a transport failure or a response that isBotDetected classifies as a bot
\* detection is returned as a failure that carries its message
C31_FailuresReturned ==
    /\ ActionDone /\ GotThrown
           => FailedWithError /\ act.result.error.str = act.thrown.message
    /\ ActionDone /\ GotResponse /\ isBotDetected(act.response)
           => FailedWithError /\ act.result.error.str = BotError
\* postTweet succeeds only with the non-empty rest_id of the response
C31_PostedWithId ==
    ActionDone /\ act.method = "postTweet" /\ act.result.success
        => /\ GotResponse /\ Ok(act.response)
           /\ act.result.id = act.response.rest_id
           /\ act.result.id.defined /\ act.result.id.str # <<>>
\* C31 (as stated): the seven methods never throw: every transport failure,
\* bot detection or error response is returned as { success: false, error },
\* and postTweet returns success = true only with a non-empty tweetId taken
\* from the response.
C31_EveryFailureCarriesError ==
    /\ C31_FailuresReturned
    /\ ActionDone /\ GotResponse /\ ~Ok(act.response) => FailedWithError
    /\ C31_PostedWithId

\* C31 (amended): the seven methods never throw; a transport failure or a bot
\* detection is returned as { success: false, error }; an error response is
\* returned as success = false, with an error message by postTweet, quoteTweet
\* and reply and with none by likeTweet, retweet, follow and sendDM unless it
\* is a bot detection; postTweet returns success = true only with a non-empty
\* tweetId taken from the response.
C31_FailuresReturnedWithoutThrowing ==
    /\ C31_FailuresReturned
    /\ ActionDone /\ GotResponse /\ ~Ok(act.response)
           => /\ ~act.result.success
              /\ act.result.error.defined
                     <=> \/ act.method \in {"postTweet", "quoteTweet", "reply"}
                         \/ isBotDetected(act.response)
    /\ C31_PostedWithId

\* C31 witness: likeTweet has returned { success: false } with no error for a
\* response of status 500.
C31_Witness ==
    /\ ActionDone /\ act.method = "likeTweet" /\ GotResponse
    /\ act.response.status = 500
    /\ ~act.result.success /\ ~act.result.error.defined

\* postTweet or quoteTweet is given a bot-detected envelope in this step
BotDetectedStep ==
    /\ act.pc = "await" /\ act.method \in {"postTweet", "quoteTweet"}
    /\ act'.thrown = NoErr /\ act'.response \in ActionResponses
    /\ isBotDetected(act'.response)
\* C32: in postTweet and quoteTweet the bot-detection check precedes the
\* duplicate check: a response classified as bot-detected ends the action with
\* a failure and is never followed by a resubmission, also when the same
\* response is classified as duplicate.
C32_BotDetectionEndsAction ==
    [][BotDetectedStep
           => /\ act'.pc = "done"
              /\ ~act'.result.success /\ act'.result.error = Defined(BotError)
              /\ act'.submissions = act.submissions]_vars

\* C32 witness: quoteTweet has returned a failure for a response that is both
\* bot-detected and duplicate.
C32_Witness ==
    /\ ActionDone /\ act.method = "quoteTweet" /\ GotResponse
    /\ isBotDetected(act.response) /\ isDuplicateError(act.response)
    /\ ~act.result.success /\ act.submissions = 1

\* C33: postTweet and quoteTweet always terminate with a result: for every
\* sequence of server responses, a server that answers every submission with
\* a duplicate-content error included, a call that is awaiting its request
\* returns (the number of resubmissions is bounded).
C33_PostAndQuoteTerminate ==
    (act.pc = "await" /\ act.method \in {"postTweet", "quoteTweet"})
        ~> (act.pc = "done")

\* a list of the campaign is empty
EmptyList == camp.tokens = 0 \/ camp.users = 0 \/ camp.templates = 0
\* C34: runCampaign issues no request when the token, user or template list is
\* empty (it fails first), and no quote tweet unless the main tweet was posted
\* successfully before: every quote attempt is preceded by a successful
\* Phase 1 post, whose tweet id it quotes.
C34_QuotesFollowMainTweet ==
    /\ camp.pc # "idle" /\ EmptyList
           => camp.posts = 0 /\ camp.quotes = <<>> /\ camp.outcome = "threw"
    /\ camp.quotes # <<>>
           => /\ camp.posts = 1 /\ camp.mainTweet.success
              /\ camp.mainTweet.id.defined /\ camp.mainTweet.id.str # <<>>
              /\ \A n \in 1..Len(camp.quotes) : camp.quotes[n].tweetId = camp.mainTweet.id

\* C34 witness: the second quote of the main tweet is in flight.
C34_Witness ==
    /\ camp.pc = "quote" /\ Len(camp.quotes) = 2
    /\ camp.mainTweet.success /\ camp.quotes[2].tweetId = camp.mainTweet.id

\* the users mentioned by the quotes before the n-th
RECURSIVE MentionedBefore(_)
MentionedBefore(n) ==
    IF n <= 1 THEN 0 ELSE MentionedBefore(n - 1) + Len(camp.quotes[n - 1].mentions)
\* the quote attempts are at most ceil(|users| / mentionsPerQuote); each takes
\* the next users of the list, at least one and at most mentionsPerQuote
C35_Batches ==
    /\ Len(camp.quotes) <= Ceil(camp.users, camp.mentionsPerQuote)
    /\ \A n \in 1..Len(camp.quotes) :
          /\ Len(camp.quotes[n].mentions) \in 1..camp.mentionsPerQuote
          /\ \A j \in 1..Len(camp.quotes[n].mentions) :
                camp.quotes[n].mentions[j] = MentionedBefore(n) + j
    /\ MentionedBefore(Len(camp.quotes) + 1) = camp.userIndex
    /\ camp.userIndex <= camp.users
\* the result of a campaign that returned one
C35_Result ==
    camp.pc = "done" /\ camp.outcome = "result"
        => /\ camp.result.totalQuotes = camp.result.successful + camp.result.failed
           /\ camp.result.totalQuotes = Len(camp.quotes)
           /\ camp.result.usersMentioned = camp.userIndex
           /\ camp.result.usersMentioned <= camp.users
           /\ ~camp.stopped
                  => /\ camp.result.usersMentioned = camp.users
                     /\ camp.result.totalQuotes = Ceil(camp.users, camp.mentionsPerQuote)
QuoteBotDetectedStep ==
    /\ camp.pc = "quote" /\ camp' # camp
    /\ camp'.lastQuote = Caught(BotError)
\* C36: once a quote attempt of runCampaign fails with bot detection (error
\* 226), no further quote attempt is made in that campaign, and the campaign
\* still returns its result, with the counts up to and including the failed
\* attempt.
C36_BotDetectionStopsCampaign ==
    /\ [][QuoteBotDetectedStep
              => /\ camp'.pc = "done" /\ camp'.outcome = "result" /\ camp'.stopped
                 /\ camp'.quotes = camp.quotes
                 /\ camp'.result.successful = camp.successCount
                 /\ camp'.result.failed = camp.errorCount + 1
                 /\ camp'.result.totalQuotes = Len(camp.quotes)
                 /\ camp'.result.usersMentioned = camp.userIndex]_vars
    /\ [][camp.pc = "done" => camp'.quotes = camp.quotes /\ camp'.pc = "done"]_vars

\* C36 witness: a campaign stopped by bot detection at its second quote, with
\* users left to mention.
C36_Witness ==
    /\ camp.pc = "done" /\ camp.stopped /\ camp.lastQuote = Caught(BotError)
    /\ Len(camp.quotes) = 2 /\ camp.result.successful = 1 /\ camp.result.failed = 1
    /\ camp.userIndex < camp.users

\* the latest validateToken call has returned, for an envelope
Validated == val.status # "none" /\ val.thrown = NoErr
\* C37: validateToken returns the status given by the HTTP status code as
\* documented: 'valid' for every 200 response, 'invalid' for every 401
\* response, 'suspended' for every 403 response that is not a bot detection and
\* 'rate-limited' for every 429 response, whatever the body of the response
\* holds; it never throws (a transport failure gives the status 'error').
C37_StatusCodeDecides ==
    /\ val.status # "none" /\ val.thrown # NoErr => val.status = "error"
    /\ Validated /\ val.response.status = 200 => val.status = "valid"
    /\ Validated /\ val.response.status = 401 => val.status = "invalid"
    /\ Validated /\ val.response.status = ForbiddenStatus /\ ~isBotDetected(val.response)
           => val.status = "suspended"
    /\ Validated /\ val.response.status = 429 => val.status = "rate-limited"

\* the buckets that hold the token at position t of the file
BucketsOf(t) ==
    {b \in BucketNames : \E n \in 1..Len(val.buckets[b]) : val.buckets[b][n] = t}
\* C38: validateFromFile puts every token of the file in exactly one of the
\* six result buckets (valid, invalid, suspended, rateLimited, botDetected,
\* errors), in file order: after processing k tokens the bucket sizes sum to
\* k, and the total of the exported summary is the number of tokens.
C38_EveryTokenInOneBucket ==
    /\ Summary(val.buckets).total = val.processed
    /\ \A t \in 1..val.processed : Cardinality(BucketsOf(t)) = 1
    /\ \A b \in BucketNames :
          \A n \in 1..Len(val.buckets[b]) :
              /\ val.buckets[b][n] \in 1..val.processed
              /\ n > 1 => val.buckets[b][n - 1] < val.buckets[b][n]
    /\ val.pc = "done" => val.summary.total = val.tokens /\ val.processed = val.tokens

\* C38 witness: a file of three tokens has been validated into the valid, the
\* rateLimited and the errors bucket.
C38_Witness ==
    /\ val.pc = "done" /\ val.tokens = 3 /\ val.summary.total = 3
    /\ Len(val.buckets["valid"]) = 1 /\ Len(val.buckets["rateLimited"]) = 1
    /\ val.buckets["errors"] = <<3>>

\* C39: the list a scrape method returns has at most maxResults users, whatever
\* the sizes of the pages the server returned.
C39_AtMostMaxResults ==
    scr.pc = "done" => Len(scr.users) <= scr.maxResults

====
